---- MODULE Spec2Model ----
(***************************************************************************)
(* Cross-exchange mispricing detector: the relational store (events,      *)
(* bindings, order-book tops, signals, paper positions, portfolio         *)
(* snapshots), the signaler, the operator mapping endpoints and the       *)
(* scheduler's three loops.                                               *)
(*                                                                         *)
(* Units.  Prices are integer cents (0.41 -> 41).  Edges, fees and        *)
(* slippage are in millionths (0.008 -> 8000).  Quote sizes are whole     *)
(* contracts; suggested sizes are in ten-thousandths of a contract, the   *)
(* grid suggested_size floors to.  Confidences are in ten-thousandths.    *)
(* The clock counts units of min_seconds_to_start (300 s).  Arithmetic is *)
(* exact: binary floating point rounding is not modelled.                 *)
(***************************************************************************)
EXTENDS Integers, Sequences, FiniteSets, TLC

VARIABLES
    now,            \* wall clock, datetime.now(timezone.utc)
    events,         \* canonical_events table, by id
    bindings,       \* market_bindings table, by (venue, venue_market_id)
    orderbook,      \* orderbook_tops table, by (venue, venue_market_id, outcome)
    signals,        \* mispricing_signals table, by (event, outcome, buy_venue, sell_venue)
    nextSignalId,   \* source of fresh row ids (uuid4) for inserted signals
    positions,      \* paper_positions table, by id
    snapshots,      \* portfolio_snapshots table, in insertion order
    pcSignal,       \* position of the signal loop inside its cycle
    sess,           \* the signal cycle's session: uncommitted writes
    cycles,         \* signal cycles begun so far
    lastOp,         \* the last store operation and what it observed
    sched,          \* AppScheduler: its tasks, stop event, clients and flags
    router,         \* PolyrouterClient: its rate gate and the requests in flight
    connector,      \* a connector: its discovery cache, the call in flight, the wall clock
    hub             \* SignalHub: its subscriber set, lock and broadcasts

vars == <<now, events, bindings, orderbook, signals, nextSignalId,
          positions, snapshots, pcSignal, sess, cycles, lastOp, sched,
          router, connector, hub>>

\* the state outside the store and the scheduler
netVars == <<router, connector, hub>>

\* the store and the scheduler
storeVars == <<now, events, bindings, orderbook, signals, nextSignalId,
               positions, snapshots, pcSignal, sess, cycles, lastOp, sched>>

----------------------------------------------------------------------------
(* Bounds of the model *)

MaxTime == 2
MaxCycles == 1
MaxQuoteCycles == 2
MaxPositions == 1
MaxSnapshots == 1
MaxRequests == 2
MaxRequested == 3
MaxDiscoveries == 2

(* Program constants, in the units above *)

TICK_SIZE == 10000
min_edge == 8000
slippage_k_pct == 20
max_notional_per_event == 250
depth_multiplier_num == 3
depth_multiplier_den == 2
min_seconds_to_start == 1
fee_poly_bps == 40
fee_kalshi_bps == 35

----------------------------------------------------------------------------
(* Domains *)

NoRow == [none |-> "row"]

\* None, for a price or a time
NoPrice == 0 - 1

PosIds == 1..MaxPositions

Venue == {"POLY", "KALSHI"}
Outcomes == {"YES", "NO"}
BindingStatus == {"AUTO", "REVIEW", "OVERRIDE", "REJECTED"}

PolyMarkets == {"p1", "p2"}
KalshiMarkets == {"k1", "k2"}
\* e1 and e2 are the ids of the two dated games; n0, n1 and n3 are the ids
\* the game of e1 gets when its start time is taken to be 0, 1 or 3
EventIds == {"e1", "e2", "n0", "n1", "n3"}

\* the ids of the two built-in demo games, one per clock unit at which
\* _demo_markets dates them (their start is 4 and 8 hours after the call)
DemoNbaEvents == <<"demo-nba-0", "demo-nba-1", "demo-nba-2", "demo-nba-3", "demo-nba-4">>
DemoUclEvents == <<"demo-ucl-0", "demo-ucl-1", "demo-ucl-2", "demo-ucl-3", "demo-ucl-4">>

MarketsOf(venue) == IF venue = "POLY" THEN PolyMarkets ELSE KalshiMarkets

OtherVenue(venue) == IF venue = "POLY" THEN "KALSHI" ELSE "POLY"

\* market_type of a listed market, derived from its outcome labels
MarketTypeOf(market) == IF market = "k2" THEN "WINNER_3WAY" ELSE "WINNER_BINARY"

\* the start time is one of the hashed inputs of the deterministic event id
StartOf(event_id) ==
    CASE event_id = "e1" -> 2
      [] event_id = "e2" -> 3
      [] event_id = "n0" -> 0
      [] event_id = "n1" -> 1
      [] event_id = "n3" -> 3

BindingKeys == {<<v, m>> : v \in Venue, m \in PolyMarkets \cup KalshiMarkets}
                 \ ({<<"POLY", m>> : m \in KalshiMarkets} \cup {<<"KALSHI", m>> : m \in PolyMarkets})

BookKeys == {<<k[1], k[2], o>> : k \in BindingKeys, o \in Outcomes}

SignalKeys == {<<e, o, v, OtherVenue(v)>> : e \in EventIds, o \in Outcomes, v \in Venue}

Max(a, b) == IF a >= b THEN a ELSE b
Min(a, b) == IF a <= b THEN a ELSE b

----------------------------------------------------------------------------
(* engine/fees.py *)

venue_fee_rate(venue) ==
    IF venue = "POLY" THEN fee_poly_bps
    ELSE IF venue = "KALSHI" THEN fee_kalshi_bps
    ELSE 0

total_fee_rate(buy_venue, sell_venue) ==
    venue_fee_rate(buy_venue) + venue_fee_rate(sell_venue)

(* engine/pricing.py *)

compute_edge(buy_quote, sell_quote, buy_venue, sell_venue) ==
    LET edge_raw == (sell_quote.bid - buy_quote.ask) * 10000
        spread   == Max(0, Max(buy_quote.ask - buy_quote.bid,
                               sell_quote.ask - sell_quote.bid))
        slippage == Max(TICK_SIZE, (spread * 10000 * slippage_k_pct) \div 100)
        fees     == (buy_quote.ask + sell_quote.bid)
                        * total_fee_rate(buy_venue, sell_venue)
    IN  [edge_raw |-> edge_raw,
         edge_after_costs |-> edge_raw - fees - slippage,
         fee_component |-> fees,
         slippage_component |-> slippage]

suggested_size(buy_quote, sell_quote) ==
    LET visible_depth == Min(buy_quote.ask_size, sell_quote.bid_size)
        \* visible_depth / max(depth_multiplier, 1.0), times 10 000, floored
        by_depth == IF depth_multiplier_num >= depth_multiplier_den
                    THEN (visible_depth * 10000 * depth_multiplier_den)
                             \div depth_multiplier_num
                    ELSE visible_depth * 10000
        best_price == Max(buy_quote.ask, 1)
        by_notional == (max_notional_per_event * 100 * 10000) \div best_price
    IN  IF visible_depth <= 0 THEN 0
        ELSE Max(0, Min(by_depth, by_notional))

----------------------------------------------------------------------------
(* engine/orderbook.py *)

\* INSERT ... ON CONFLICT DO NOTHING: the first row of a key stays
insert_top_once(book, venue, venue_market_id, outcome, best_bid, best_ask, bid_size, ask_size) ==
    IF book[<<venue, venue_market_id, outcome>>] # NoRow THEN book
    ELSE [book EXCEPT ![<<venue, venue_market_id, outcome>>] =
            [best_bid |-> best_bid, best_ask |-> best_ask,
             bid_size |-> bid_size, ask_size |-> ask_size, ts |-> now]]

\* an update that adds the new sizes to the stored ones
upsert_top_adding(book, venue, venue_market_id, outcome, best_bid, best_ask, bid_size, ask_size) ==
    LET old == book[<<venue, venue_market_id, outcome>>]
    IN  [book EXCEPT ![<<venue, venue_market_id, outcome>>] =
            [best_bid |-> best_bid, best_ask |-> best_ask,
             bid_size |-> IF old = NoRow THEN bid_size ELSE old.bid_size + bid_size,
             ask_size |-> IF old = NoRow THEN ask_size ELSE old.ask_size + ask_size,
             ts |-> now]]

\* INSERT ... ON CONFLICT (venue, venue_market_id, outcome) DO UPDATE
upsert_top(book, venue, venue_market_id, outcome, best_bid, best_ask, bid_size, ask_size) ==
    [book EXCEPT ![<<venue, venue_market_id, outcome>>] =
        [best_bid |-> best_bid, best_ask |-> best_ask,
         bid_size |-> bid_size, ask_size |-> ask_size, ts |-> now]]

get_top(book, venue, venue_market_id, outcome) ==
    book[<<venue, venue_market_id, outcome>>]

----------------------------------------------------------------------------
(* engine/signaler.py *)

NoQuote == [none |-> "quote"]
NoSignal == [none |-> "signal"]

get_quote(book, venue, market_id, outcome) ==
    LET top == get_top(book, venue, market_id, outcome)
        yes_top == get_top(book, venue, market_id, "YES")
    IN  IF top # NoRow
        THEN [bid |-> top.best_bid, ask |-> top.best_ask,
              bid_size |-> top.bid_size, ask_size |-> top.ask_size]
        ELSE IF outcome = "NO" /\ yes_top # NoRow
        THEN [bid |-> Max(0, 100 - yes_top.best_ask),
              ask |-> Max(0, 100 - yes_top.best_bid),
              bid_size |-> yes_top.ask_size,
              ask_size |-> yes_top.bid_size]
        ELSE NoQuote

\* the market ids of a venue the binding table has a place for
ListedOf(bnd, venue) == {key[2] : key \in {k \in DOMAIN bnd : k[1] = venue}}

\* a binding query that forgets the status filter
AnyStatusBindings(bnd, event_id, venue) ==
    {m \in ListedOf(bnd, venue) :
        /\ bnd[<<venue, m>>] # NoRow
        /\ bnd[<<venue, m>>].canonical_event_id = event_id}

\* the rows of one venue bound to an event with an allowed status
AllowedBindings(bnd, event_id, venue) ==
    {m \in ListedOf(bnd, venue) :
        /\ bnd[<<venue, m>>] # NoRow
        /\ bnd[<<venue, m>>].canonical_event_id = event_id
        /\ bnd[<<venue, m>>].status \in {"AUTO", "OVERRIDE"}}

\* a pair query that does not look at the market type
load_binding_pairs_any_type(evs, bnd) ==
    {e \in DOMAIN evs :
        /\ evs[e] # NoRow
        /\ AllowedBindings(bnd, e, "POLY") # {}
        /\ AllowedBindings(bnd, e, "KALSHI") # {}}

\* the events that yield a BindingPair
load_binding_pairs(evs, bnd) ==
    {e \in DOMAIN evs :
        /\ evs[e] # NoRow
        /\ AllowedBindings(bnd, e, "POLY") # {}
        /\ AllowedBindings(bnd, e, "KALSHI") # {}
        /\ \A m \in AllowedBindings(bnd, e, "POLY") :
              bnd[<<"POLY", m>>].market_type = "WINNER_BINARY"
        /\ \A m \in AllowedBindings(bnd, e, "KALSHI") :
              bnd[<<"KALSHI", m>>].market_type = "WINNER_BINARY"}

PairPoly(bnd, e) == CHOOSE m \in AllowedBindings(bnd, e, "POLY") : TRUE
PairKalshi(bnd, e) == CHOOSE m \in AllowedBindings(bnd, e, "KALSHI") : TRUE

\* gates that forget the minimum edge
passes_size_gates(buy_quote, sell_quote, size, edge) ==
    /\ ~(size <= 0)
    /\ ~(buy_quote.ask_size * 10000 * depth_multiplier_den < size * depth_multiplier_num)
    /\ ~(sell_quote.bid_size * 10000 * depth_multiplier_den < size * depth_multiplier_num)

\* the size, depth and edge gates of _evaluate_pair
passes_gates(buy_quote, sell_quote, size, edge) ==
    /\ ~(size <= 0)
    /\ ~(buy_quote.ask_size * 10000 * depth_multiplier_den < size * depth_multiplier_num)
    /\ ~(sell_quote.bid_size * 10000 * depth_multiplier_den < size * depth_multiplier_num)
    /\ ~(edge.edge_after_costs < min_edge)

evaluate_pair(book, bnd, event_id, outcome) ==
    LET poly_id == PairPoly(bnd, event_id)
        kalshi_id == PairKalshi(bnd, event_id)
        poly_quote == get_quote(book, "POLY", poly_id, outcome)
        kalshi_quote == get_quote(book, "KALSHI", kalshi_id, outcome)
    IN  IF poly_quote = NoQuote \/ kalshi_quote = NoQuote THEN NoSignal
        ELSE
        LET a_to_b == compute_edge(poly_quote, kalshi_quote, "POLY", "KALSHI")
            b_to_a == compute_edge(kalshi_quote, poly_quote, "KALSHI", "POLY")
            polyBuys == a_to_b.edge_after_costs >= b_to_a.edge_after_costs
            buy_venue == IF polyBuys THEN "POLY" ELSE "KALSHI"
            sell_venue == IF polyBuys THEN "KALSHI" ELSE "POLY"
            buy_market_id == IF polyBuys THEN poly_id ELSE kalshi_id
            sell_market_id == IF polyBuys THEN kalshi_id ELSE poly_id
            buy_quote == IF polyBuys THEN poly_quote ELSE kalshi_quote
            sell_quote == IF polyBuys THEN kalshi_quote ELSE poly_quote
            edge == IF polyBuys THEN a_to_b ELSE b_to_a
            size == suggested_size(buy_quote, sell_quote)
        IN  IF ~passes_gates(buy_quote, sell_quote, size, edge) THEN NoSignal
            ELSE [canonical_event_id |-> event_id,
                  outcome |-> outcome,
                  buy_venue |-> buy_venue,
                  sell_venue |-> sell_venue,
                  buy_market_id |-> buy_market_id,
                  sell_market_id |-> sell_market_id,
                  buy_price |-> buy_quote.ask,
                  sell_price |-> sell_quote.bid,
                  size_suggested |-> size,
                  edge_raw |-> edge.edge_raw,
                  edge_after_costs |-> edge.edge_after_costs,
                  confidence |-> Min(bnd[<<"POLY", poly_id>>].confidence,
                                     bnd[<<"KALSHI", kalshi_id>>].confidence),
                  status |-> "OPEN"]

SignalKeyOf(signal) ==
    <<signal.canonical_event_id, signal.outcome, signal.buy_venue, signal.sell_venue>>

\* REPLACE semantics: the conflicting row is deleted and a new one inserted
replace_signal(tbl, signal, fresh_id, ts) ==
    [tbl EXCEPT ![SignalKeyOf(signal)] =
        [id |-> fresh_id,
         buy_market_id |-> signal.buy_market_id,
         sell_market_id |-> signal.sell_market_id,
         buy_price |-> signal.buy_price,
         sell_price |-> signal.sell_price,
         size_suggested |-> signal.size_suggested,
         edge_raw |-> signal.edge_raw,
         edge_after_costs |-> signal.edge_after_costs,
         confidence |-> signal.confidence,
         status |-> signal.status,
         created_at |-> ts]]

\* INSERT ... ON CONFLICT (event, outcome, buy_venue, sell_venue) DO UPDATE
upsert_signal(tbl, signal, fresh_id, ts) ==
    LET key == SignalKeyOf(signal)
        row == [id |-> IF tbl[key] = NoRow THEN fresh_id ELSE tbl[key].id,
                buy_market_id |-> signal.buy_market_id,
                sell_market_id |-> signal.sell_market_id,
                buy_price |-> signal.buy_price,
                sell_price |-> signal.sell_price,
                size_suggested |-> signal.size_suggested,
                edge_raw |-> signal.edge_raw,
                edge_after_costs |-> signal.edge_after_costs,
                confidence |-> signal.confidence,
                status |-> signal.status,
                created_at |-> ts]
    IN  [tbl EXCEPT ![key] = row]


\* refresh_signals' loop over the pairs and the two outcomes: the table after
\* the upserts, the keys written (the returned list) and the next fresh id
RECURSIVE refresh_fold(_, _, _, _, _, _)
refresh_fold(todo, tbl, created, fresh_id, book, bnd) ==
    IF todo = <<>> THEN [signals |-> tbl, created |-> created, next_id |-> fresh_id]
    ELSE LET signal == evaluate_pair(book, bnd, todo[1][1], todo[1][2])
         IN  IF signal = NoSignal
             THEN refresh_fold(Tail(todo), tbl, created, fresh_id, book, bnd)
             ELSE refresh_fold(Tail(todo),
                               upsert_signal(tbl, signal, fresh_id, now),
                               created \cup {SignalKeyOf(signal)},
                               IF tbl[SignalKeyOf(signal)] = NoRow
                                   THEN fresh_id + 1 ELSE fresh_id,
                               book, bnd)

EventOrder == <<"e1", "e2", "n0", "n1", "n3">> \o DemoNbaEvents \o DemoUclEvents

RECURSIVE PairOutcomes(_, _)
PairOutcomes(order, pairs) ==
    IF order = <<>> THEN <<>>
    ELSE (IF order[1] \in pairs
          THEN <<<<order[1], "YES">>, <<order[1], "NO">>>> ELSE <<>>)
         \o PairOutcomes(Tail(order), pairs)

\* a refresh that forgets the start-time filter
StartsAnyTime(evs, event_id) == evs[event_id] # NoRow

\* the pairs that pass the start-time filter of refresh_signals
StartsLateEnough(evs, event_id) ==
    ~(evs[event_id].start_time_utc < now + min_seconds_to_start)

refresh_signals(tbl, fresh_id, evs, bnd, book) ==
    LET pairs == {e \in load_binding_pairs(evs, bnd) : StartsLateEnough(evs, e)}
    IN  refresh_fold(PairOutcomes(EventOrder, pairs), tbl, {}, fresh_id, book, bnd)

----------------------------------------------------------------------------
(* paper/portfolio.py *)

OpenPositions(pos) == {p \in DOMAIN pos : pos[p] # NoRow /\ pos[p].status = "OPEN"}
ClosedPositions(pos) == {p \in DOMAIN pos : pos[p] # NoRow /\ pos[p].status = "CLOSED"}

\* a settlement that leaves the positions of an event starting right now
auto_close_strictly_started(pos, evs) ==
    [p \in DOMAIN pos |->
        IF /\ p \in OpenPositions(pos)
           /\ evs[pos[p].canonical_event_id] # NoRow
           /\ evs[pos[p].canonical_event_id].start_time_utc < now
        THEN [pos[p] EXCEPT
                !.realized_pnl = (pos[p].entry_sell_price - pos[p].entry_buy_price) * pos[p].size,
                !.unrealized_pnl = 0,
                !.status = "CLOSED",
                !.closed_at = now]
        ELSE pos[p]]

auto_close_started_events(pos, evs) ==
    [p \in DOMAIN pos |->
        IF /\ p \in OpenPositions(pos)
           /\ evs[pos[p].canonical_event_id] # NoRow
           /\ ~(evs[pos[p].canonical_event_id].start_time_utc > now)
        THEN [pos[p] EXCEPT
                !.realized_pnl = (pos[p].entry_sell_price - pos[p].entry_buy_price) * pos[p].size,
                !.unrealized_pnl = 0,
                !.status = "CLOSED",
                !.closed_at = now]
        ELSE pos[p]]

RECURSIVE SumOver(_, _, _)
SumOver(S, pos, field) ==
    IF S = {} THEN 0
    ELSE LET p == CHOOSE x \in S : TRUE
         IN  (IF field = "realized_pnl" THEN pos[p].realized_pnl ELSE pos[p].unrealized_pnl)
             + SumOver(S \ {p}, pos, field)

\* a refresh that marks the closed positions too
mark_all_positions(pos, book) ==
    [p \in DOMAIN pos |->
        IF pos[p] = NoRow THEN pos[p]
        ELSE LET buy_book == get_top(book, pos[p].buy_venue, pos[p].buy_market_id, pos[p].outcome)
                 sell_book == get_top(book, pos[p].sell_venue, pos[p].sell_market_id, pos[p].outcome)
             IN  IF buy_book = NoRow \/ sell_book = NoRow
                 THEN [pos[p] EXCEPT !.unrealized_pnl = 0]
                 ELSE [pos[p] EXCEPT !.unrealized_pnl =
                         (buy_book.best_bid - pos[p].entry_buy_price) * pos[p].size
                         + (pos[p].entry_sell_price - sell_book.best_ask) * pos[p].size]]

\* the positions after the unrealized-PnL refresh of the OPEN ones
mark_positions(pos, book) ==
    [p \in DOMAIN pos |->
        IF p \notin OpenPositions(pos) THEN pos[p]
        ELSE LET buy_book == get_top(book, pos[p].buy_venue, pos[p].buy_market_id, pos[p].outcome)
                 sell_book == get_top(book, pos[p].sell_venue, pos[p].sell_market_id, pos[p].outcome)
             IN  IF buy_book = NoRow \/ sell_book = NoRow
                 THEN [pos[p] EXCEPT !.unrealized_pnl = 0]
                 ELSE [pos[p] EXCEPT !.unrealized_pnl =
                         (buy_book.best_bid - pos[p].entry_buy_price) * pos[p].size
                         + (pos[p].entry_sell_price - sell_book.best_ask) * pos[p].size]]

\* the PortfolioSnapshot mark_to_market adds
portfolio_snapshot(pos) ==
    LET realized == SumOver(ClosedPositions(pos), pos, "realized_pnl")
        unrealized == SumOver(OpenPositions(pos), pos, "unrealized_pnl")
    IN  [ts |-> now, equity |-> realized + unrealized,
         realized_pnl |-> realized, unrealized_pnl |-> unrealized]

----------------------------------------------------------------------------
(* paper/fills.py, paper/simulator.py *)

\* a crossing order filled with the whole displayed depth
simulate_limit_fill_whole_depth(side, limit_price, best_bid, best_ask, displayed_depth, requested_size, hit) ==
    LET requested == Max(0, requested_size)
        depth == displayed_depth * 10000
        crosses == IF side = "BUY" THEN limit_price >= best_ask
                   ELSE limit_price <= best_bid
        joins == IF side = "BUY" THEN limit_price = best_bid
                 ELSE limit_price = best_ask
        prob == IF joins THEN 60
                ELSE IF best_bid < limit_price /\ limit_price < best_ask THEN 12
                ELSE 3
    IN  IF requested <= 0 \/ displayed_depth <= 0
        THEN [fill_price |-> limit_price, filled_size |-> 0, probability |-> 0]
        ELSE IF crosses
        THEN [fill_price |-> IF side = "BUY" THEN best_ask ELSE best_bid,
              filled_size |-> depth, probability |-> 100]
        ELSE [fill_price |-> limit_price,
              filled_size |-> IF hit THEN Min(requested, (depth * prob) \div 100) ELSE 0,
              probability |-> prob]

\* probabilities are in percent; hit stands for rng.random() <= prob
simulate_limit_fill(side, limit_price, best_bid, best_ask, displayed_depth, requested_size, hit) ==
    LET requested == Max(0, requested_size)
        depth == displayed_depth * 10000
        crosses == IF side = "BUY" THEN limit_price >= best_ask
                   ELSE limit_price <= best_bid
        joins == IF side = "BUY" THEN limit_price = best_bid
                 ELSE limit_price = best_ask
        prob == IF joins THEN 60
                ELSE IF best_bid < limit_price /\ limit_price < best_ask THEN 12
                ELSE 3
    IN  IF requested <= 0 \/ displayed_depth <= 0
        THEN [fill_price |-> limit_price, filled_size |-> 0, probability |-> 0]
        ELSE IF crosses
        THEN [fill_price |-> IF side = "BUY" THEN best_ask ELSE best_bid,
              filled_size |-> Min(requested, depth), probability |-> 100]
        ELSE [fill_price |-> limit_price,
              filled_size |-> IF hit THEN Min(requested, (depth * prob) \div 100) ELSE 0,
              probability |-> prob]

\* requested_size omitted
NoSize == 0 - 1

\* the row of the signal with the given id, or NoRow
SignalById(tbl, signal_id) ==
    IF \E key \in DOMAIN tbl : tbl[key] # NoRow /\ tbl[key].id = signal_id
    THEN LET key == CHOOSE k \in DOMAIN tbl : tbl[k] # NoRow /\ tbl[k].id = signal_id
         IN  [key |-> key, row |-> tbl[key]]
    ELSE NoRow

\* PaperTradingSimulator.simulate_signal: the position it adds with its two
\* PaperFill rows, or the ValueError it raises
simulate_signal(tbl, book, signal_id, requested_size, hit_buy, hit_sell) ==
    LET found == SignalById(tbl, signal_id)
    IN  IF found = NoRow THEN [error |-> "signal not found"]
        ELSE
        LET signal == found.row
            key == found.key
            wanted == IF requested_size # NoSize THEN requested_size
                      ELSE signal.size_suggested
            target_size == Max(0, Min(wanted, signal.size_suggested))
            buy_top == get_top(book, key[3], signal.buy_market_id, key[2])
            sell_top == get_top(book, key[4], signal.sell_market_id, key[2])
        IN  IF target_size <= 0 THEN [error |-> "size must be positive"]
            ELSE IF buy_top = NoRow \/ sell_top = NoRow
            THEN [error |-> "orderbook unavailable for simulation"]
            ELSE
            LET buy_fill == simulate_limit_fill("BUY", signal.buy_price, buy_top.best_bid,
                                buy_top.best_ask, buy_top.ask_size, target_size, hit_buy)
                sell_fill == simulate_limit_fill("SELL", signal.sell_price, sell_top.best_bid,
                                sell_top.best_ask, sell_top.bid_size, target_size, hit_sell)
                filled_size == Min(buy_fill.filled_size, sell_fill.filled_size)
            IN  IF filled_size <= 0 THEN [error |-> "simulated fills were zero"]
                ELSE [canonical_event_id |-> key[1],
                      signal_id |-> signal.id,
                      outcome |-> key[2],
                      buy_venue |-> key[3],
                      sell_venue |-> key[4],
                      buy_market_id |-> signal.buy_market_id,
                      sell_market_id |-> signal.sell_market_id,
                      size |-> filled_size,
                      entry_buy_price |-> buy_fill.fill_price,
                      entry_sell_price |-> sell_fill.fill_price,
                      \* the quotient filled_size / target_size, as its two terms
                      fill_ratio |-> <<filled_size, target_size>>,
                      status |-> "OPEN",
                      realized_pnl |-> 0,
                      unrealized_pnl |-> 0,
                      closed_at |-> NoPrice,
                      fills |-> <<[leg |-> "BUY", limit_price |-> signal.buy_price,
                                   fill_price |-> buy_fill.fill_price,
                                   size |-> target_size, filled_size |-> filled_size,
                                   probability |-> buy_fill.probability],
                                  [leg |-> "SELL", limit_price |-> signal.sell_price,
                                   fill_price |-> sell_fill.fill_price,
                                   size |-> target_size, filled_size |-> filled_size,
                                   probability |-> sell_fill.probability]>>]

\* a close that settles a position again when it is closed already
close_position_again(pos, book, position_id) ==
    LET position == pos[position_id]
        buy_top == get_top(book, position.buy_venue, position.buy_market_id, position.outcome)
        sell_top == get_top(book, position.sell_venue, position.sell_market_id, position.outcome)
        realized == IF buy_top # NoRow /\ sell_top # NoRow
                    THEN (buy_top.best_bid - position.entry_buy_price) * position.size
                         + (position.entry_sell_price - sell_top.best_ask) * position.size
                    ELSE (position.entry_sell_price - position.entry_buy_price) * position.size
    IN  [pos EXCEPT ![position_id] =
            [position EXCEPT !.realized_pnl = realized,
                             !.unrealized_pnl = 0,
                             !.status = "CLOSED",
                             !.closed_at = now]]

\* PaperTradingSimulator.close_position on an existing position
close_position(pos, book, position_id) ==
    LET position == pos[position_id]
        buy_top == get_top(book, position.buy_venue, position.buy_market_id, position.outcome)
        sell_top == get_top(book, position.sell_venue, position.sell_market_id, position.outcome)
        realized == IF buy_top # NoRow /\ sell_top # NoRow
                    THEN (buy_top.best_bid - position.entry_buy_price) * position.size
                         + (position.entry_sell_price - sell_top.best_ask) * position.size
                    ELSE (position.entry_sell_price - position.entry_buy_price) * position.size
    IN  IF position.status = "CLOSED" THEN pos
        ELSE [pos EXCEPT ![position_id] =
                [position EXCEPT !.realized_pnl = realized,
                                 !.unrealized_pnl = 0,
                                 !.status = "CLOSED",
                                 !.closed_at = now]]

----------------------------------------------------------------------------
(* engine/scheduler.py: the discovery cycle's writes *)

\* raw listing values are in hundredths: 0.52 is 52, 57 (cents) is 5700
coerce_price(value) ==
    IF value = NoPrice THEN NoPrice
    ELSE LET parsed == IF value > 100 THEN value \div 100 ELSE value
         IN  IF 0 <= parsed /\ parsed <= 100 THEN parsed ELSE NoPrice

\* a or b or ..., where None and 0 are falsy
FirstTruthy(value) == IF value = NoPrice \/ value = 0 THEN NoPrice ELSE value

seed_orderbook_from_market(book, venue, market_id, raw) ==
    LET yes_bid == coerce_price(FirstTruthy(raw.bid))
        yes_ask == coerce_price(FirstTruthy(raw.ask))
        no_bid == coerce_price(raw.no_bid)
        no_ask == coerce_price(raw.no_ask)
        withYes == upsert_top(book, venue, market_id, "YES",
                              yes_bid, yes_ask, raw.bid_size, raw.ask_size)
    IN  IF yes_bid = NoPrice \/ yes_ask = NoPrice THEN book
        ELSE IF no_bid # NoPrice /\ no_ask # NoPrice
        THEN upsert_top(withYes, venue, market_id, "NO",
                        no_bid, no_ask, raw.ask_size, raw.bid_size)
        ELSE withYes

upsert_event(evs, pair) ==
    [evs EXCEPT ![pair.event_id] = [start_time_utc |-> pair.start_time_utc]]

\* uq_binding_event_venue: another row of the venue already holds the event
EventVenueTaken(bnd, venue, market_id, event_id) ==
    \E m \in {key[2] : key \in {k \in DOMAIN bnd : k[1] = venue}} :
        /\ m # market_id
        /\ bnd[<<venue, m>>] # NoRow
        /\ bnd[<<venue, m>>].canonical_event_id = event_id

\* INSERT ... ON CONFLICT (venue, venue_market_id) DO UPDATE
upsert_binding(bnd, pair, venue) ==
    LET market_id == IF venue = "POLY" THEN pair.poly ELSE pair.kalshi
    IN  [bnd EXCEPT ![<<venue, market_id>>] =
            [canonical_event_id |-> pair.event_id,
             market_type |-> MarketTypeOf(market_id),
             status |-> pair.status,
             confidence |-> pair.confidence]]

\* the loop over the pairs inside the discovery transaction; ok is FALSE when
\* a statement raised IntegrityError
RECURSIVE persist_pairs(_, _, _)
persist_pairs(pairs, evs, bnd) ==
    IF pairs = <<>> THEN [ok |-> TRUE, events |-> evs, bindings |-> bnd]
    ELSE LET pair == pairs[1]
             evs1 == upsert_event(evs, pair)
             bnd1 == upsert_binding(bnd, pair, "POLY")
             bnd2 == upsert_binding(bnd1, pair, "KALSHI")
         IN  IF EventVenueTaken(bnd, "POLY", pair.poly, pair.event_id)
                  \/ EventVenueTaken(bnd1, "KALSHI", pair.kalshi, pair.event_id)
             THEN [ok |-> FALSE, events |-> evs, bindings |-> bnd]
             ELSE persist_pairs(Tail(pairs), evs1, bnd2)

MarketOrder == <<<<"POLY", "p1">>, <<"POLY", "p2">>, <<"KALSHI", "k1">>, <<"KALSHI", "k2">>>>

RECURSIVE seed_all(_, _, _)
seed_all(markets, book, raws) ==
    IF markets = <<>> THEN book
    ELSE seed_all(Tail(markets),
                  seed_orderbook_from_market(book, markets[1][1], markets[1][2],
                                             raws[markets[1][2]]),
                  raws)

\* _refresh_poly_books: one YES top per resolved venue-A market the CLOB
\* answers for; no answer (NoRow) leaves the market's row alone
RECURSIVE refresh_poly_books(_, _, _)
refresh_poly_books(book, pairs, tops) ==
    IF pairs = <<>> THEN book
    ELSE LET top == tops[pairs[1].poly]
         IN  refresh_poly_books(
                 IF top = NoRow THEN book
                 ELSE upsert_top(book, "POLY", pairs[1].poly, "YES",
                                 top.best_bid, top.best_ask, top.bid_size, top.ask_size),
                 Tail(pairs), tops)

----------------------------------------------------------------------------
(* routers/mappings.py: the rows after each endpoint's commit *)

approve_mapping(bnd, key) ==
    [bnd EXCEPT ![key].status = "OVERRIDE",
                ![key].confidence = Max(9000, bnd[key].confidence)]

reject_mapping(bnd, key) ==
    [bnd EXCEPT ![key].status = "REJECTED"]

override_pair(bnd, poly_market_id, kalshi_market_id, canonical_event_id) ==
    [bnd EXCEPT ![<<"POLY", poly_market_id>>] =
                    [@ EXCEPT !.canonical_event_id = canonical_event_id,
                              !.status = "OVERRIDE", !.confidence = 10000],
                ![<<"KALSHI", kalshi_market_id>>] =
                    [@ EXCEPT !.canonical_event_id = canonical_event_id,
                              !.status = "OVERRIDE", !.confidence = 10000]]

----------------------------------------------------------------------------
(* Inputs *)

\* the confidence the resolver reports with each status: a score of at least
\* 0.86 for AUTO, of 0.80 to 0.86 for REVIEW, below for REJECTED, and the
\* override file's default 1.0 for OVERRIDE
ConfidenceOf(status) ==
    CASE status = "AUTO" -> 9000
      [] status = "REVIEW" -> 8300
      [] status = "REJECTED" -> 7000
      [] OTHER -> 10000

\* the canonical event of a pair: its id hashes the pair's sport, competition,
\* start time and teams, which resolve_markets takes from the venue-A market
EventOfPoly(poly_market_id) == IF poly_market_id = "p1" THEN "e1" ELSE "e2"

ResolvedPair(poly_market_id, kalshi_market_id, status) ==
    [poly |-> poly_market_id, kalshi |-> kalshi_market_id,
     event_id |-> EventOfPoly(poly_market_id),
     start_time_utc |-> StartOf(EventOfPoly(poly_market_id)),
     status |-> status, confidence |-> ConfidenceOf(status)]

\* resolve_markets yields at most one pair per venue-A market, in listing
\* order; the venue-B market is the best-scoring candidate, which two venue-A
\* markets may share.  A pair with the three-way market k2 is REVIEW unless
\* the override file names it
PairLists ==
    {<<ResolvedPair("p1", "k1", st)>> : st \in {"AUTO", "REVIEW", "REJECTED"}}
    \cup {<<ResolvedPair("p1", "k2", "AUTO")>>}
    \cup {<<ResolvedPair("p2", "k1", st)>> : st \in {"AUTO", "REVIEW"}}
    \cup {<<ResolvedPair("p1", "k1", "AUTO"), ResolvedPair("p2", "k2", st)>> :
             st \in {"REVIEW", "OVERRIDE"}}

Unpriced == [bid |-> NoPrice, ask |-> NoPrice, bid_size |-> 0, ask_size |-> 0,
             no_bid |-> NoPrice, no_ask |-> NoPrice]

Priced(bid, ask, bid_size, ask_size) ==
    [bid |-> bid, ask |-> ask, bid_size |-> bid_size, ask_size |-> ask_size,
     no_bid |-> NoPrice, no_ask |-> NoPrice]

\* the listing payloads of a discovery cycle, per market: venue A quotes
\* probabilities, venue B cents
RawListings ==
    {[p1 |-> Priced(40, 41, 300, 250), p2 |-> Priced(40, 41, 300, 250),
      k1 |-> Priced(4900, 5000, 300, 250), k2 |-> Priced(4900, 5000, 300, 250)]}

\* the CLOB's answers to a cycle's book requests, per venue-A market
NoTops == [m \in PolyMarkets |-> NoRow]

\* the CLOB out of reach: every request fails
ClobDown == {NoTops}

----------------------------------------------------------------------------
(* normalization/resolver.py and normalization/canonical.py: from the two    *)
(* listings to the resolved pairs.  Scores are in thirtieths of a            *)
(* ten-thousandth (0.86 is 25800), so that the time score of a start-time    *)
(* difference of d clock units of 300 s, 1 - (d/12)/6, is exact              *)

\* no competition recognised in the listing (competition is None)
NoCompetition == ""

SUPPORTED_SOCCER_COMPETITIONS == {"EPL", "UCL", "UEL", "LALIGA"}

\* a VenueMarket as build_venue_market returns it; start_time_utc is NoPrice
\* when the venue gave no parseable time.  The title of a market is
\* "<home_team> vs <away_team>", and both teams are always parsed
VenueMarket(venue, market_id, sport, competition, start_time_utc, home_team, away_team, market_type) ==
    [venue |-> venue, venue_market_id |-> market_id, sport |-> sport,
     competition |-> competition, start_time_utc |-> start_time_utc,
     home_team |-> home_team, away_team |-> away_team, market_type |-> market_type]

\* the teams parsed from a market's title: p1 and k1 list one game, p2 and k2
\* another
GameOf(market_id) == IF market_id \in {"p1", "k1"} THEN "g1" ELSE "g2"

HomeOf(game) == IF game = "g1" THEN "boston celtics" ELSE "los angeles lakers"

AwayOf(game) == IF game = "g1" THEN "new york knicks" ELSE "miami heat"

\* the VenueMarket of one of the four listed NBA markets
Listing(venue, market_id, start_time_utc) ==
    VenueMarket(venue, market_id, "NBA", "NBA", start_time_utc,
                HomeOf(GameOf(market_id)), AwayOf(GameOf(market_id)),
                MarketTypeOf(market_id))

\* fuzzy.token_set_similarity of two team names, in ten-thousandths: the
\* values the function returns, which depend on the order of its arguments
token_set_similarity(a, b) ==
    CASE a = b -> 10000
      [] a = "chicago bulls" /\ b = "brooklyn nets" -> 2308
      [] a = "chicago bulls" /\ b = "phoenix suns" -> 1600
      [] a = "brooklyn nets" /\ b = "chicago bulls" -> 1538
      [] a = "brooklyn nets" /\ b = "phoenix suns" -> 4000
      [] a = "phoenix suns" /\ b = "chicago bulls" -> 1600
      [] a = "phoenix suns" /\ b = "brooklyn nets" -> 2400
      [] a = "boston celtics" /\ b = "new york knicks" -> 2759
      [] a = "boston celtics" /\ b = "los angeles lakers" -> 1250
      [] a = "boston celtics" /\ b = "miami heat" -> 2500
      [] a = "new york knicks" /\ b = "boston celtics" -> 2759
      [] a = "new york knicks" /\ b = "los angeles lakers" -> 3636
      [] a = "new york knicks" /\ b = "miami heat" -> 800
      [] a = "los angeles lakers" /\ b = "boston celtics" -> 2500
      [] a = "los angeles lakers" /\ b = "new york knicks" -> 2424
      [] a = "los angeles lakers" /\ b = "miami heat" -> 2143
      [] a = "miami heat" /\ b = "boston celtics" -> 2500
      [] a = "miami heat" /\ b = "new york knicks" -> 1600
      [] a = "miami heat" /\ b = "los angeles lakers" -> 2143
      [] a = "galatasaray" /\ b = "juventus" -> 2105
      [] a = "juventus" /\ b = "galatasaray" -> 2105
      [] a = "real madrid" /\ b = "barcelona" -> 4000
      [] a = "barcelona" /\ b = "real madrid" -> 4000

\* _team_similarity: the better of the aligned and the flipped reading, and
\* whether the flipped one won by more than 0.05; in ten-thousandths
team_similarity(poly, kalshi) ==
    LET aligned == (token_set_similarity(poly.home_team, kalshi.home_team)
                    + token_set_similarity(poly.away_team, kalshi.away_team)) \div 2
        flipped == (token_set_similarity(poly.home_team, kalshi.away_team)
                    + token_set_similarity(poly.away_team, kalshi.home_team)) \div 2
    IN  [score |-> Max(aligned, flipped), flipped |-> flipped > aligned + 500]

\* _title_score: token_set_similarity of the two titles, in ten-thousandths.
\* The token set of a title is that of its two team names, so the two
\* orientations of one game score 1
title_score(poly, kalshi) ==
    LET mine == {poly.home_team, poly.away_team}
        theirs == {kalshi.home_team, kalshi.away_team}
    IN  CASE mine = theirs -> 10000
          [] "chicago bulls" \in mine \cap theirs -> 7111
          [] mine = {"boston celtics", "new york knicks"} -> 2462
          [] mine = {"los angeles lakers", "miami heat"} -> 3385

AbsDiff(a, b) == IF a >= b THEN a - b ELSE b - a

\* the window in clock units of 300 s: 6 hours for an NBA market, else 12
time_window(poly) == IF poly.sport = "NBA" THEN 72 ELSE 144

within_time_window(poly, kalshi) ==
    IF poly.start_time_utc = NoPrice \/ kalshi.start_time_utc = NoPrice THEN TRUE
    ELSE AbsDiff(poly.start_time_utc, kalshi.start_time_utc) <= time_window(poly)

is_supported_competition(market) ==
    IF market.sport = "NBA" THEN market.competition = "NBA"
    ELSE IF market.sport = "SOCCER" THEN market.competition \in SUPPORTED_SOCCER_COMPETITIONS
    ELSE FALSE

\* 0.3 * _time_score, in thirtieths of a ten-thousandth: 9000 * (1 - d/window)
time_score3(poly, kalshi) ==
    IF poly.start_time_utc = NoPrice \/ kalshi.start_time_utc = NoPrice THEN 0
    ELSE Max(0, 9000 - (9000 * AbsDiff(poly.start_time_utc, kalshi.start_time_utc))
                           \div time_window(poly))

total_score3(poly, kalshi) ==
    ((15 * team_similarity(poly, kalshi).score) \div 10)
        + time_score3(poly, kalshi)
        + ((6 * title_score(poly, kalshi)) \div 10)

NoOverrides == [key \in {} |-> NoRow]

\* overrides.get((poly, kalshi))
OverrideOf(overrides, poly, kalshi) ==
    IF <<poly.venue_market_id, kalshi.venue_market_id>> \in DOMAIN overrides
    THEN overrides[<<poly.venue_market_id, kalshi.venue_market_id>>]
    ELSE NoRow

\* a decision that trades a pair whose home and away sides are swapped
decision_ignoring_flip(score3, poly, kalshi, orientation_flipped, override) ==
    IF override # NoRow THEN override.status
    ELSE IF poly.market_type # "WINNER_BINARY" \/ kalshi.market_type # "WINNER_BINARY"
    THEN "REVIEW"
    ELSE IF poly.start_time_utc = NoPrice \/ kalshi.start_time_utc = NoPrice THEN "REVIEW"
    ELSE IF score3 >= 25800 THEN "AUTO"
    ELSE IF score3 >= 24000 THEN "REVIEW"
    ELSE "REJECTED"

decision(score3, poly, kalshi, orientation_flipped, override) ==
    IF override # NoRow THEN override.status
    ELSE IF poly.market_type = "WINNER_3WAY" \/ kalshi.market_type = "WINNER_3WAY"
    THEN "REVIEW"
    ELSE IF poly.market_type # "WINNER_BINARY" \/ kalshi.market_type # "WINNER_BINARY"
    THEN "REVIEW"
    ELSE IF orientation_flipped THEN "REVIEW"
    ELSE IF poly.start_time_utc = NoPrice \/ kalshi.start_time_utc = NoPrice THEN "REVIEW"
    ELSE IF score3 >= 25800 THEN "AUTO"
    ELSE IF score3 >= 24000 THEN "REVIEW"
    ELSE "REJECTED"

\* the uuid5 of the sha1 of sport, competition, start time and teams: one id
\* per distinct tuple of them
deterministic_event_id(sport, competition, start_time_utc, home_team, away_team) ==
    CASE sport = "NBA" /\ home_team = "boston celtics" /\ start_time_utc = 0 -> "n0"
      [] sport = "NBA" /\ home_team = "boston celtics" /\ start_time_utc = 1 -> "n1"
      [] sport = "NBA" /\ home_team = "boston celtics" /\ start_time_utc = 2 -> "e1"
      [] sport = "NBA" /\ home_team = "boston celtics" /\ start_time_utc = 3 -> "n3"
      [] sport = "NBA" /\ home_team = "los angeles lakers" /\ start_time_utc = 3 -> "e2"
      [] sport = "NBA" /\ home_team = "boston celtics" /\ start_time_utc \in 48..52
            -> DemoNbaEvents[start_time_utc - 47]
      [] sport = "SOCCER" /\ home_team = "galatasaray" /\ start_time_utc \in 96..100
            -> DemoUclEvents[start_time_utc - 95]
      [] OTHER -> <<sport, competition, start_time_utc, home_team, away_team>>

\* max(candidate_rows, key=score): the first of the best-scoring candidates
RECURSIVE best_candidate(_, _, _)
best_candidate(poly, candidates, best) ==
    IF candidates = <<>> THEN best
    ELSE best_candidate(poly, Tail(candidates),
             IF best = NoRow \/ total_score3(poly, candidates[1]) > total_score3(poly, best)
             THEN candidates[1] ELSE best)

\* the start time of a pair: the earlier of the two, the one there is, or the
\* time of the run
pair_start_time(poly, kalshi, clock) ==
    IF poly.start_time_utc # NoPrice /\ kalshi.start_time_utc # NoPrice
    THEN Min(poly.start_time_utc, kalshi.start_time_utc)
    ELSE IF poly.start_time_utc # NoPrice THEN poly.start_time_utc
    ELSE IF kalshi.start_time_utc # NoPrice THEN kalshi.start_time_utc
    ELSE clock

\* the ResolvedPair of a market and its best candidate; score3 and
\* orientation_flipped are the "score" and "orientation_flipped" of its
\* evidence
resolve_one(poly, best_kalshi, overrides, clock) ==
    LET best_score == total_score3(poly, best_kalshi)
        start_time == pair_start_time(poly, best_kalshi, clock)
        override == OverrideOf(overrides, poly, best_kalshi)
        orientation_flipped == team_similarity(poly, best_kalshi).flipped
    IN  [poly |-> poly.venue_market_id, kalshi |-> best_kalshi.venue_market_id,
         event_id |-> deterministic_event_id(poly.sport, poly.competition, start_time,
                                             poly.home_team, poly.away_team),
         start_time_utc |-> start_time,
         status |-> decision(best_score, poly, best_kalshi, orientation_flipped, override),
         confidence |-> IF override # NoRow THEN override.confidence
                        ELSE (best_score + 1) \div 3,
         score3 |-> best_score,
         orientation_flipped |-> orientation_flipped]

\* candidates that pass whatever their start times are
candidate_any_time(poly, kalshi) ==
    /\ poly.sport = kalshi.sport
    /\ is_supported_competition(kalshi)
    /\ (poly.sport = "SOCCER" => poly.competition = kalshi.competition)

\* the venue-B markets a venue-A market may pair with
candidate(poly, kalshi) ==
    /\ poly.sport = kalshi.sport
    /\ is_supported_competition(kalshi)
    /\ (poly.sport = "SOCCER" => poly.competition = kalshi.competition)
    /\ within_time_window(poly, kalshi)

RECURSIVE resolve_markets(_, _, _, _)
resolve_markets(polymarket_markets, kalshi_markets, overrides, clock) ==
    IF polymarket_markets = <<>> THEN <<>>
    ELSE LET poly == polymarket_markets[1]
             candidates == SelectSeq(kalshi_markets, LAMBDA kalshi : candidate(poly, kalshi))
             best == best_candidate(poly, candidates, NoRow)
         IN  (IF poly.sport \notin {"NBA", "SOCCER"} \/ ~is_supported_competition(poly)
                 \/ best = NoRow
              THEN <<>> ELSE <<resolve_one(poly, best, overrides, clock)>>)
             \o resolve_markets(Tail(polymarket_markets), kalshi_markets, overrides, clock)

\* the statements of the discovery transaction, in the order the cycle issues
\* them: per pair its event and its two bindings, then one seeding per listed
\* market
RECURSIVE pair_statements(_)
pair_statements(pairs) ==
    IF pairs = <<>> THEN <<>>
    ELSE <<[op |-> "upsert_event", pair |-> pairs[1], venue |-> "", market |-> ""],
           [op |-> "upsert_binding", pair |-> pairs[1], venue |-> "POLY",
            market |-> pairs[1].poly],
           [op |-> "upsert_binding", pair |-> pairs[1], venue |-> "KALSHI",
            market |-> pairs[1].kalshi]>>
         \o pair_statements(Tail(pairs))

RECURSIVE seed_statements(_)
seed_statements(markets) ==
    IF markets = <<>> THEN <<>>
    ELSE <<[op |-> "seed_orderbook", pair |-> NoRow, venue |-> markets[1].venue,
            market |-> markets[1].venue_market_id]>>
         \o seed_statements(Tail(markets))

\* a cycle that seeds the order book before it persists the pairs
seed_first_statements(pairs, markets) ==
    seed_statements(markets) \o pair_statements(pairs)

discovery_statements(pairs, markets) ==
    pair_statements(pairs) \o seed_statements(markets)

\* one statement on the session's view of the store; ok turns FALSE when the
\* statement raises IntegrityError
run_statement(stmt, db, raws) ==
    CASE stmt.op = "upsert_event" ->
            [db EXCEPT !.events = upsert_event(db.events, stmt.pair)]
      [] stmt.op = "upsert_binding" ->
            IF EventVenueTaken(db.bindings, stmt.venue, stmt.market, stmt.pair.event_id)
            THEN [db EXCEPT !.ok = FALSE]
            ELSE [db EXCEPT !.bindings = upsert_binding(db.bindings, stmt.pair, stmt.venue)]
      [] stmt.op = "seed_orderbook" ->
            [db EXCEPT !.orderbook =
                seed_orderbook_from_market(db.orderbook, stmt.venue, stmt.market,
                                           raws[stmt.market])]

\* the statements in order up to the first that raises; log is what was issued
RECURSIVE run_statements(_, _, _)
run_statements(stmts, db, raws) ==
    IF stmts = <<>> \/ ~db.ok THEN db
    ELSE run_statements(Tail(stmts),
                        [run_statement(stmts[1], db, raws) EXCEPT
                            !.log = Append(db.log, stmts[1])],
                        raws)

\* the fetch_top_of_book calls of _refresh_poly_books, one per resolved pair
RECURSIVE fetch_statements(_)
fetch_statements(pairs) ==
    IF pairs = <<>> THEN <<>>
    ELSE <<[op |-> "fetch_top_of_book", pair |-> NoRow, venue |-> "POLY",
            market |-> pairs[1].poly]>>
         \o fetch_statements(Tail(pairs))

SessionEnd(op) == [op |-> op, pair |-> NoRow, venue |-> "", market |-> ""]

----------------------------------------------------------------------------
(* Actions *)

CleanSession == [steps |-> <<>>, dirty |-> [p \in {} |-> NoRow],
                 snapshot |-> NoRow, closed |-> {}, before |-> NoRow]

NoOp == [op |-> "none"]

\* AppScheduler._run_discovery_cycle: the transaction that persists the pairs
\* and seeds the order book; an IntegrityError rolls all of it back.  It runs
\* on the event loop, so never between two steps of a signal cycle, which has
\* no await inside.  The CLOB snapshots follow the commit
DiscoveryCycle(pairs, raws, tops) ==
    LET done == persist_pairs(pairs, events, bindings)
    IN  /\ pcSignal = "sleep"
        /\ events' = IF done.ok THEN done.events ELSE events
        /\ bindings' = IF done.ok THEN done.bindings ELSE bindings
        /\ orderbook' = IF done.ok
                        THEN refresh_poly_books(seed_all(MarketOrder, orderbook, raws),
                                                pairs, tops)
                        ELSE orderbook
        /\ lastOp' = NoOp
        /\ UNCHANGED <<netVars, now, signals, nextSignalId, positions, snapshots, pcSignal, sess, cycles, sched>>

\* AppScheduler._run_discovery_cycle from the two listings: nothing is written
\* when a venue lists nothing; else the pairs are resolved, the transaction
\* runs its statements and commits, or rolls back at the first that raises,
\* and only a committed cycle goes on to fetch the CLOB tops
DiscoveryRun(poly_markets, kalshi_markets, overrides, raws, tops) ==
    \E pairs \in {resolve_markets(poly_markets, kalshi_markets, overrides, now)} :
    \E done \in {run_statements(discovery_statements(pairs, poly_markets \o kalshi_markets),
                                [ok |-> TRUE, events |-> events, bindings |-> bindings,
                                 orderbook |-> orderbook, log |-> <<>>],
                                raws)} :
    LET inputs == <<poly_markets, kalshi_markets, overrides, raws, tops>>
        listed == poly_markets # <<>> /\ kalshi_markets # <<>>
        committed == listed /\ done.ok
    IN  /\ pcSignal = "sleep"
        /\ events' = IF committed THEN done.events ELSE events
        /\ bindings' = IF committed THEN done.bindings ELSE bindings
        /\ orderbook' = IF committed THEN refresh_poly_books(done.orderbook, pairs, tops)
                        ELSE orderbook
        /\ lastOp' = [op |-> "discovery",
                      inputs |-> inputs,
                      repeat |-> lastOp.op = "discovery" /\ lastOp.inputs = inputs,
                      at |-> now,
                      pairs |-> IF listed THEN pairs ELSE <<>>,
                      before |-> [events |-> events, bindings |-> bindings],
                      log |-> IF ~listed THEN <<>>
                              ELSE IF done.ok
                              THEN done.log \o <<SessionEnd("commit")>> \o fetch_statements(pairs)
                              ELSE done.log \o <<SessionEnd("rollback")>>]
        /\ UNCHANGED <<netVars, now, signals, nextSignalId, positions, snapshots, pcSignal, sess, cycles, sched>>

ApproveMapping(key) ==
    /\ bindings[key] # NoRow
    /\ bindings' = approve_mapping(bindings, key)
    /\ lastOp' = NoOp
    /\ UNCHANGED <<netVars, now, events, orderbook, signals, nextSignalId, positions,
                   snapshots, pcSignal, sess, cycles, sched>>

RejectMapping(key) ==
    /\ bindings[key] # NoRow
    /\ bindings' = reject_mapping(bindings, key)
    /\ lastOp' = NoOp
    /\ UNCHANGED <<netVars, now, events, orderbook, signals, nextSignalId, positions,
                   snapshots, pcSignal, sess, cycles, sched>>

\* a unique-constraint failure at commit leaves the rows as they were
OverridePair(poly_market_id, kalshi_market_id, canonical_event_id) ==
    /\ bindings[<<"POLY", poly_market_id>>] # NoRow
    /\ bindings[<<"KALSHI", kalshi_market_id>>] # NoRow
    /\ events[canonical_event_id] # NoRow
    /\ bindings' =
         IF \/ EventVenueTaken(bindings, "POLY", poly_market_id, canonical_event_id)
            \/ EventVenueTaken(bindings, "KALSHI", kalshi_market_id, canonical_event_id)
         THEN bindings
         ELSE override_pair(bindings, poly_market_id, kalshi_market_id, canonical_event_id)
    /\ lastOp' = NoOp
    /\ UNCHANGED <<netVars, now, events, orderbook, signals, nextSignalId, positions,
                   snapshots, pcSignal, sess, cycles, sched>>

Tick ==
    /\ now < MaxTime
    /\ now' = now + 1
    /\ UNCHANGED <<netVars, events, bindings, orderbook, signals, nextSignalId, positions,
                   snapshots, pcSignal, sess, cycles, lastOp, sched>>

\* POST /paper/simulate: a ValueError becomes a 4xx answer and nothing is
\* written.  The endpoints run in worker threads, between the steps of a
\* signal cycle too, until the cycle's session has flushed its writes
Simulate(signal_id, requested_size, hit_buy, hit_sell) ==
    LET position == simulate_signal(signals, orderbook, signal_id, requested_size,
                                    hit_buy, hit_sell)
        free == {p \in PosIds : positions[p] = NoRow}
    IN  /\ pcSignal # "marked"
        /\ free # {}
        /\ positions' = IF "error" \in DOMAIN position THEN positions
                        ELSE [positions EXCEPT ![CHOOSE p \in free :
                                                   \A q \in free : p <= q] = position]
        /\ lastOp' = NoOp
        /\ UNCHANGED <<netVars, now, events, bindings, orderbook, signals, nextSignalId,
                       snapshots, pcSignal, sess, cycles, sched>>

\* POST /paper/positions/{id}/close
ClosePosition(position_id) ==
    /\ pcSignal # "marked"
    /\ positions[position_id] # NoRow
    /\ positions' = close_position(positions, orderbook, position_id)
    /\ lastOp' = NoOp
    /\ UNCHANGED <<netVars, now, events, bindings, orderbook, signals, nextSignalId,
                   snapshots, pcSignal, sess, cycles, sched>>

\* the session's view of the positions: the store with its own writes applied
SessionView ==
    [p \in DOMAIN positions |->
        IF p \in DOMAIN sess.dirty THEN sess.dirty[p] ELSE positions[p]]

Changed(before, after) ==
    LET S == {p \in DOMAIN after : after[p] # before[p]}
    IN  [p \in S |-> after[p]]

\* _signal_loop, first step: refresh_signals, which ends with session.commit()
SignalRefresh(limit) ==
    /\ pcSignal = "sleep"
    /\ cycles < limit
    /\ cycles' = cycles + 1
    /\ LET done == refresh_signals(signals, nextSignalId, events, bindings, orderbook)
       IN  /\ signals' = done.signals
           /\ nextSignalId' = done.next_id
           /\ lastOp' = [op |-> "refresh_signals", created |-> done.created,
                         before |-> signals, at |-> now]
    /\ pcSignal' = "refreshed"
    /\ sess' = [CleanSession EXCEPT !.steps = <<"refresh_signals">>,
                                    !.before = signals]
    /\ UNCHANGED <<netVars, now, events, bindings, orderbook, positions, snapshots, sched>>

\* second step: auto_close_started_events, its writes pending in the session
SignalAutoClose ==
    /\ pcSignal = "refreshed"
    /\ LET after == auto_close_started_events(SessionView, events)
       IN  sess' = [sess EXCEPT
                      !.steps = Append(@, "auto_close_started_events"),
                      !.dirty = Changed(positions, after),
                      !.closed = {p \in DOMAIN after : after[p] # SessionView[p]}]
    /\ pcSignal' = "closed"
    /\ lastOp' = NoOp
    /\ UNCHANGED <<netVars, now, events, bindings, orderbook, signals, nextSignalId,
                   positions, snapshots, cycles, sched>>

\* a step of the cycle that runs before the step it should follow
MarkToMarketFirst ==
    /\ pcSignal = "refreshed"
    /\ LET after == mark_positions(SessionView, orderbook)
       IN  sess' = [sess EXCEPT
                      !.steps = Append(@, "mark_to_market"),
                      !.dirty = Changed(positions, after),
                      !.snapshot = portfolio_snapshot(after)]
    /\ pcSignal' = "marked"
    /\ lastOp' = NoOp
    /\ UNCHANGED <<netVars, now, events, bindings, orderbook, signals, nextSignalId,
                   positions, snapshots, cycles, sched>>

\* third step: mark_to_market, its writes and its snapshot pending in the session
SignalMarkToMarket ==
    /\ pcSignal = "closed"
    /\ LET after == mark_positions(SessionView, orderbook)
       IN  sess' = [sess EXCEPT
                      !.steps = Append(@, "mark_to_market"),
                      !.dirty = Changed(positions, after),
                      !.snapshot = portfolio_snapshot(after)]
    /\ pcSignal' = "marked"
    /\ lastOp' = NoOp
    /\ UNCHANGED <<netVars, now, events, bindings, orderbook, signals, nextSignalId,
                   positions, snapshots, cycles, sched>>

\* session_scope's commit on leaving the with block
SignalCommit ==
    /\ pcSignal = "marked"
    /\ positions' = SessionView
    /\ snapshots' = Append(snapshots, sess.snapshot)
    /\ sess' = CleanSession
    /\ pcSignal' = "sleep"
    /\ lastOp' = NoOp
    /\ UNCHANGED <<netVars, now, events, bindings, orderbook, signals, nextSignalId, cycles, sched>>

\* an exception in a step: session_scope rolls back what is uncommitted and
\* the loop logs "signal cycle failed"
SignalFail(limit) ==
    /\ pcSignal \in {"sleep", "refreshed", "closed", "marked"}
    /\ pcSignal = "sleep" => cycles < limit
    /\ cycles' = IF pcSignal = "sleep" THEN cycles + 1 ELSE cycles
    /\ sess' = CleanSession
    /\ pcSignal' = "sleep"
    /\ lastOp' = [op |-> "signal_cycle_failed", steps |-> sess.steps,
                  before |-> IF pcSignal = "sleep" THEN signals ELSE sess.before]
    /\ UNCHANGED <<netVars, now, events, bindings, orderbook, signals, nextSignalId,
                   positions, snapshots, sched>>

----------------------------------------------------------------------------
(* The writers of the order book, one upsert_top call site each *)

\* what the writers so far have last upserted under each key
LatestSoFar == IF lastOp.op = "upsert_top" THEN lastOp.latest
               ELSE [k \in BookKeys |-> NoRow]

Quoted(best_bid, best_ask, bid_size, ask_size) ==
    [best_bid |-> best_bid, best_ask |-> best_ask,
     bid_size |-> bid_size, ask_size |-> ask_size]

\* discovery seeding of one listed market: a YES row when the listing has
\* both YES prices, and a NO row when it has both NO prices too
BookSeed(venue, market_id, raw) ==
    LET yes_bid == coerce_price(FirstTruthy(raw.bid))
        yes_ask == coerce_price(FirstTruthy(raw.ask))
        no_bid == coerce_price(raw.no_bid)
        no_ask == coerce_price(raw.no_ask)
        hasYes == yes_bid # NoPrice /\ yes_ask # NoPrice
        hasNo == hasYes /\ no_bid # NoPrice /\ no_ask # NoPrice
        yesKey == <<venue, market_id, "YES">>
        noKey == <<venue, market_id, "NO">>
    IN  /\ orderbook' = seed_orderbook_from_market(orderbook, venue, market_id, raw)
        /\ lastOp' = [op |-> "upsert_top",
                      before |-> orderbook,
                      keys |-> (IF hasYes THEN {yesKey} ELSE {})
                               \cup (IF hasNo THEN {noKey} ELSE {}),
                      latest |-> [k \in BookKeys |->
                          IF k = yesKey /\ hasYes
                          THEN Quoted(yes_bid, yes_ask, raw.bid_size, raw.ask_size)
                          ELSE IF k = noKey /\ hasNo
                          THEN Quoted(no_bid, no_ask, raw.ask_size, raw.bid_size)
                          ELSE LatestSoFar[k]]]
        /\ UNCHANGED <<netVars, now, events, bindings, signals, nextSignalId, positions,
                       snapshots, pcSignal, sess, cycles, sched>>

\* one upsert of a fetched top: _refresh_poly_books writes the CLOB's YES top
\* of a venue-A market, _refresh_polyrouter_books any top the router returns
BookTop(venue, market_id, outcome, top) ==
    /\ orderbook' = upsert_top(orderbook, venue, market_id, outcome,
                               top.best_bid, top.best_ask, top.bid_size, top.ask_size)
    /\ lastOp' = [op |-> "upsert_top",
                  before |-> orderbook,
                  keys |-> {<<venue, market_id, outcome>>},
                  latest |-> [LatestSoFar EXCEPT ![<<venue, market_id, outcome>>] = top]]
    /\ UNCHANGED <<netVars, now, events, bindings, signals, nextSignalId, positions,
                   snapshots, pcSignal, sess, cycles, sched>>

RefreshPolyBook(market_id, top) == BookTop("POLY", market_id, "YES", top)

RefreshPolyrouterBook(venue, market_id, outcome, top) ==
    BookTop(venue, market_id, outcome, top)

----------------------------------------------------------------------------
(* engine/scheduler.py: AppScheduler's loops, start and stop *)

Loops == {"discovery", "signal", "broadcast"}

\* the clients stop() closes, in its order
ClientOrder == <<"gamma", "kalshi_rest", "poly_clob", "polyrouter">>

\* the scheduler once start() has created its three tasks
NewScheduler ==
    [stop_event |-> FALSE,
     task |-> [l \in Loops |-> "created"],
     cancel |-> {},
     stop |-> "idle",
     closed |-> <<>>,
     demo_rows_purged |-> FALSE,
     last |-> [l \in Loops |-> "none"],
     waited |-> [l \in Loops |-> "none"],
     last_snapshot |-> {}]

\* a task that can take its next step, and one at the top of its loop with
\* the stop event clear
Runnable(l) ==
    /\ l \notin sched.cancel
    /\ sched.task[l] # "cancelled"

AtLoopTop(l) ==
    /\ Runnable(l)
    /\ sched.task[l] \in {"created", "ready"}
    /\ ~sched.stop_event

\* an exception that escapes the loop ends its task
exception_escapes(l) == "cancelled"

\* except Exception: the cycle is logged and the loop goes on to its sleep
after_exception(l) == "sleeping"

\* asyncio.sleep(interval) is over: the task is ready to run again
LoopWake(l) ==
    /\ l \notin sched.cancel
    /\ sched.task[l] = "sleeping"
    /\ sched' = [sched EXCEPT !.task[l] = "ready"]
    /\ UNCHANGED <<netVars, now, events, bindings, orderbook, signals, nextSignalId,
                   positions, snapshots, pcSignal, sess, cycles, lastOp>>

\* _discovery_loop: the cycle up to its first await, the venue requests
DiscoveryLoopStart ==
    /\ AtLoopTop("discovery")
    /\ sched' = [sched EXCEPT !.demo_rows_purged = TRUE,
                                               !.task["discovery"] = "discovering"]
    /\ UNCHANGED <<netVars, now, events, bindings, orderbook, signals, nextSignalId,
                   positions, snapshots, pcSignal, sess, cycles, lastOp>>

\* the listings arrive: resolve, persist and seed in one transaction, then
\* ask the CLOB for the pairs' books
DiscoveryLoopPersist(pairs, raws) ==
    LET done == persist_pairs(pairs, events, bindings)
    IN  /\ Runnable("discovery")
        /\ sched.task["discovery"] = "discovering"
        /\ done.ok
        /\ events' = done.events
        /\ bindings' = done.bindings
        /\ orderbook' = seed_all(MarketOrder, orderbook, raws)
        /\ sched' = [sched EXCEPT !.task["discovery"] = "books"]
        /\ lastOp' = NoOp
        /\ UNCHANGED <<netVars, now, signals, nextSignalId, positions, snapshots, pcSignal,
                       sess, cycles>>

\* the CLOB's answers arrive and are upserted; the cycle is over
DiscoveryLoopBooks(pairs, tops) ==
    /\ Runnable("discovery")
    /\ sched.task["discovery"] = "books"
    /\ orderbook' = refresh_poly_books(orderbook, pairs, tops)
    /\ sched' = [sched EXCEPT !.task["discovery"] = "sleeping",
                              !.last["discovery"] = "ok"]
    /\ lastOp' = NoOp
    /\ UNCHANGED <<netVars, now, events, bindings, signals, nextSignalId, positions,
                   snapshots, pcSignal, sess, cycles>>

\* an exception in the cycle: a request fails at the top, or a store
\* statement raises and its transaction is rolled back
DiscoveryLoopFail ==
    /\ Runnable("discovery")
    /\ \/ sched.task["discovery"] \in {"discovering", "books"}
          /\ sched' = [sched EXCEPT !.task["discovery"] = after_exception("discovery"),
                                    !.last["discovery"] = "failed"]
       \/ AtLoopTop("discovery")
          /\ sched' = [sched EXCEPT
                          !.task["discovery"] = after_exception("discovery"),
                          !.last["discovery"] = "failed"]
    /\ UNCHANGED <<netVars, now, events, bindings, orderbook, signals, nextSignalId,
                   positions, snapshots, pcSignal, sess, cycles, lastOp>>

\* _signal_loop: one cycle, which has no await inside, then the sleep
SignalLoopCycle ==
    LET done == refresh_signals(signals, nextSignalId, events, bindings, orderbook)
        marked == mark_positions(auto_close_started_events(positions, events), orderbook)
    IN  /\ AtLoopTop("signal")
        /\ Len(snapshots) < MaxCycles
        /\ signals' = done.signals
        /\ nextSignalId' = done.next_id
        /\ positions' = marked
        /\ snapshots' = Append(snapshots, portfolio_snapshot(marked))
        /\ sched' = [sched EXCEPT !.task["signal"] = "sleeping",
                                                !.last["signal"] = "ok"]
        /\ lastOp' = NoOp
        /\ UNCHANGED <<netVars, now, events, bindings, orderbook, pcSignal, sess, cycles>>

\* a signal cycle that raises, before or after refresh_signals' commit
SignalLoopFail(committed) ==
    LET done == refresh_signals(signals, nextSignalId, events, bindings, orderbook)
    IN  /\ AtLoopTop("signal")
        /\ signals' = IF committed THEN done.signals ELSE signals
        /\ nextSignalId' = IF committed THEN done.next_id ELSE nextSignalId
        /\ sched' = [sched EXCEPT
                        !.task["signal"] = after_exception("signal"),
                        !.last["signal"] = "failed"]
        /\ lastOp' = NoOp
        /\ UNCHANGED <<netVars, now, events, bindings, orderbook, positions, snapshots,
                       pcSignal, sess, cycles>>

\* the OPEN signals _build_snapshot reads
OpenSignalKeys == {key \in SignalKeys : signals[key] # NoRow /\ signals[key].status = "OPEN"}

\* _broadcast_loop: build the snapshot, keep it, start sending it
BroadcastLoopBuild ==
    /\ AtLoopTop("broadcast")
    /\ sched' = [sched EXCEPT !.task["broadcast"] = "sending",
                                                   !.last_snapshot = OpenSignalKeys]
    /\ UNCHANGED <<netVars, now, events, bindings, orderbook, signals, nextSignalId,
                   positions, snapshots, pcSignal, sess, cycles, lastOp>>

\* hub.broadcast returns
BroadcastLoopSent ==
    /\ Runnable("broadcast")
    /\ sched.task["broadcast"] = "sending"
    /\ sched' = [sched EXCEPT !.task["broadcast"] = "sleeping",
                              !.last["broadcast"] = "ok"]
    /\ UNCHANGED <<netVars, now, events, bindings, orderbook, signals, nextSignalId,
                   positions, snapshots, pcSignal, sess, cycles, lastOp>>

\* _build_snapshot or hub.broadcast raises
BroadcastLoopFail ==
    /\ Runnable("broadcast")
    /\ \/ sched.task["broadcast"] = "sending"
          /\ sched' = [sched EXCEPT !.task["broadcast"] = after_exception("broadcast"),
                                    !.last["broadcast"] = "failed"]
       \/ AtLoopTop("broadcast")
          /\ sched' = [sched EXCEPT
                          !.task["broadcast"] = after_exception("broadcast"),
                          !.last["broadcast"] = "failed"]
    /\ UNCHANGED <<netVars, now, events, bindings, orderbook, signals, nextSignalId,
                   positions, snapshots, pcSignal, sess, cycles, lastOp>>

\* stop(), up to its gather: the event is set and every task is cancelled
StopCall ==
    /\ sched.stop = "idle"
    /\ sched' = [sched EXCEPT !.stop_event = TRUE,
                              !.cancel = Loops,
                              !.stop = "gathering"]
    /\ UNCHANGED <<netVars, now, events, bindings, orderbook, signals, nextSignalId,
                   positions, snapshots, pcSignal, sess, cycles, lastOp>>

\* CancelledError is thrown into the task at the await it waits on, or
\* before its first step; no handler of the loop catches it
LoopCancelled(l) ==
    /\ l \in sched.cancel
    /\ sched' = [sched EXCEPT !.task[l] = "cancelled", !.cancel = @ \ {l},
                              !.waited[l] = sched.task[l]]
    /\ UNCHANGED <<netVars, now, events, bindings, orderbook, signals, nextSignalId,
                   positions, snapshots, pcSignal, sess, cycles, lastOp>>

\* a gather that does not wait for the tasks
none_awaited(task) == TRUE

\* asyncio.gather(*tasks, return_exceptions=True) can return
all_done(task) == \A l \in Loops : task[l] = "cancelled"

StopGathered ==
    /\ sched.stop = "gathering"
    /\ all_done(sched.task)
    /\ sched' = [sched EXCEPT !.stop = "closing"]
    /\ UNCHANGED <<netVars, now, events, bindings, orderbook, signals, nextSignalId,
                   positions, snapshots, pcSignal, sess, cycles, lastOp>>

\* stop() closes the next client; after the last one it returns
StopClose ==
    /\ sched.stop = "closing"
    /\ sched' = [sched EXCEPT
                    !.closed = Append(@, ClientOrder[Len(@) + 1]),
                    !.stop = IF Len(sched.closed) + 1 = Len(ClientOrder)
                             THEN "returned" ELSE "closing"]
    /\ UNCHANGED <<netVars, now, events, bindings, orderbook, signals, nextSignalId,
                   positions, snapshots, pcSignal, sess, cycles, lastOp>>

----------------------------------------------------------------------------
(* connectors/polyrouter.py: a request with backoff behind the rate gate    *)

\* the tasks that call the client concurrently
Callers == {"c1", "c2"}

\* what one HTTP attempt comes to: a 200 with a JSON body, a 429, or anything
\* that raises inside the try block (timeout, 5xx, reset, a body that is not JSON)
Responses == {"ok", "429", "error"}

\* the monotonic clock counts fiftieths of a second
MonoPerMinute == 3000

\* range(4)
MaxAttempts == 4

\* 0.6 s and 0.4 s
Base429 == 30
BaseRetry == 20

\* the values of the setting polyrouter_req_per_min the gate is run with
ReqPerMinSettings == {0, 100, 5000}

\* steps of one fiftieth of a second the clock may take between two events
MaxElapse == 1

NoCall == [pc |-> "idle", attempt |-> 0, wake |-> 0, slept |-> 0,
           responses |-> <<>>, result |-> "none"]

\* _last_request_ts = 0.0 and a free lock; gap is the time between the last
\* two passes through the gate (-1 before the second pass)
NewRouter(setting) ==
    [polyrouter_req_per_min |-> setting, mono |-> 1, last_request_ts |-> 0,
     holder |-> "", waiters |-> <<>>, gap |-> -1, elapsed |-> 0,
     call |-> [c \in Callers |-> NoCall]]

req_per_min(setting) == Max(1, Min(setting, 1000))

min_interval(setting) == MonoPerMinute \div req_per_min(setting)

\* how long the caller in the gate sleeps before it passes
gate_wait(r) ==
    LET delta == r.mono - r.last_request_ts
    IN  IF r.last_request_ts # 0 /\ delta < min_interval(r.polyrouter_req_per_min)
        THEN min_interval(r.polyrouter_req_per_min) - delta ELSE 0

\* the lock is taken at once only when it is free and nobody waits for it
lock_always_free(r) == TRUE
lock_free(r) == r.holder = "" /\ r.waiters = <<>>

\* the caller stamps the clock, leaves the gate and sends its request; the
\* lock goes to the longest waiter
pass_gate(r, c) ==
    LET next == IF r.waiters = <<>> THEN "" ELSE Head(r.waiters)
        left == [r EXCEPT !.gap = IF r.last_request_ts = 0 THEN -1
                                  ELSE r.mono - r.last_request_ts,
                          !.last_request_ts = r.mono,
                          !.holder = IF r.holder = c THEN next ELSE r.holder,
                          !.waiters = IF r.holder = c /\ r.waiters # <<>>
                                      THEN Tail(r.waiters) ELSE r.waiters,
                          !.call[c].pc = "send"]
    IN  IF r.holder = c /\ next # ""
        THEN [left EXCEPT !.call[next].pc = "granted"] ELSE left

\* inside the lock: sleep for the rest of the interval, or pass at once
enter_gate(r, c) ==
    IF gate_wait(r) > 0
    THEN [r EXCEPT !.call[c].pc = "gate_sleep",
                   !.call[c].wake = r.mono + gate_wait(r)]
    ELSE pass_gate(r, c)

respect_rate_limit(r, c) ==
    IF lock_free(r)
    THEN enter_gate([r EXCEPT !.holder = c], c)
    ELSE [r EXCEPT !.waiters = Append(@, c), !.call[c].pc = "queued"]

\* what the except branch does with a failure on the given attempt
reraise_on_last(attempt) == IF attempt = MaxAttempts - 1 THEN "raise" ELSE "sleep"
after_failure(attempt) == IF attempt = MaxAttempts - 1 THEN "return" ELSE "sleep"

\* the loop takes the next attempt, or ends after the last one
next_attempt(r, c) ==
    IF r.call[c].attempt + 1 < MaxAttempts
    THEN respect_rate_limit([r EXCEPT !.call[c].attempt = @ + 1], c)
    ELSE [r EXCEPT !.call[c].pc = "done", !.call[c].result = "null"]

\* the answer to the request in flight
on_response(r, c, response) ==
    LET call == r.call[c]
        got == [r EXCEPT !.call[c].responses = Append(@, response)]
        sleep(base) ==
            [got EXCEPT !.call[c].pc = "backoff",
                        !.call[c].wake = r.mono + base * (call.attempt + 1),
                        !.call[c].slept = @ + base * (call.attempt + 1)]
    IN  CASE response = "ok" ->
               [got EXCEPT !.call[c].pc = "done", !.call[c].result = "payload"]
          [] response = "429" -> sleep(Base429)
          [] OTHER ->
               CASE after_failure(call.attempt) = "sleep" -> sleep(BaseRetry)
                 [] after_failure(call.attempt) = "return" ->
                      [got EXCEPT !.call[c].pc = "done", !.call[c].result = "null"]
                 [] OTHER ->
                      [got EXCEPT !.call[c].pc = "raised"]

\* a task calls _request_with_backoff and runs up to its first await
Request(c) ==
    /\ router.call[c].pc = "idle"
    /\ router' = respect_rate_limit(router, c)
    /\ UNCHANGED <<storeVars, connector, hub>>

\* a waiter is given the lock and runs on inside the gate
LockGranted(c) ==
    /\ router.call[c].pc = "granted"
    /\ router' = enter_gate(router, c)
    /\ UNCHANGED <<storeVars, connector, hub>>

\* the sleep inside the gate is over
GateWake(c) ==
    /\ router.call[c].pc = "gate_sleep"
    /\ router.mono >= router.call[c].wake
    /\ router' = pass_gate(router, c)
    /\ UNCHANGED <<storeVars, connector, hub>>

Respond(c, response) ==
    /\ router.call[c].pc = "send"
    /\ router' = on_response(router, c, response)
    /\ UNCHANGED <<storeVars, connector, hub>>

\* the sleep after a failed attempt is over
BackoffWake(c) ==
    /\ router.call[c].pc = "backoff"
    /\ router.mono >= router.call[c].wake
    /\ router' = next_attempt(router, c)
    /\ UNCHANGED <<storeVars, connector, hub>>

Sleepers == {c \in Callers : router.call[c].pc \in {"gate_sleep", "backoff"}
                             /\ router.call[c].wake > router.mono}

\* the clock runs on to the next wake-up
Advance ==
    /\ Sleepers # {}
    /\ \E c \in Sleepers :
          /\ \A d \in Sleepers : router.call[c].wake <= router.call[d].wake
          /\ router' = [router EXCEPT !.mono = router.call[c].wake]
    /\ UNCHANGED <<storeVars, connector, hub>>

\* a fiftieth of a second passes
Elapse ==
    /\ router.elapsed < MaxElapse
    /\ router' = [router EXCEPT !.mono = @ + 1, !.elapsed = @ + 1]
    /\ UNCHANGED <<storeVars, connector, hub>>


----------------------------------------------------------------------------
(* connectors/polyrouter.py, kalshi_rest.py, polymarket_gamma.py: market    *)
(* discovery with its cache and its pagination                              *)

\* PolyrouterClient (one platform), KalshiRestClient, PolymarketGammaClient
Connectors == {"polyrouter", "kalshi", "gamma"}

\* the cursors a server hands out; the first page is asked for without one
Cursors == {"a", "b"}

\* the wall clock counts tens of seconds: 30.0 s
MARKET_CACHE_TTL_SEC == 3

MARKET_PAGE_SIZE == 200
EVENT_PAGE_SIZE == 200
EVENT_PAGE_CAP == 30

\* the values of polyrouter_market_page_limit and market_discovery_limit
PageLimits == {0, 3}
DiscoveryLimits == {20, 500}

\* the wall clock's last value and the calls made to one connector
MaxWall == 6
MaxCalls == 2

\* a list of markets: how many, and the call that built it
EmptyList == [n |-> 0, at |-> 0]
MarketList(n, at) == IF n = 0 THEN EmptyList ELSE [n |-> n, at |-> at]

\* _request_with_backoff returned None
NoPage == [ok |-> FALSE, rows |-> 0, kept |-> 0, next |-> ""]

\* what a page request comes to: None, or rows of which kept become markets,
\* with the cursor of the next page; a full page holds markets only, a page of
\* one row may hold a row that is no market
ServerPages ==
    {NoPage} \cup
    {p \in [ok : {TRUE}, rows : {0, 1, MARKET_PAGE_SIZE}, kept : {0, 1, MARKET_PAGE_SIZE},
            next : Cursors \cup {""}] :
        /\ p.kept \in {p.rows, IF p.rows = 1 THEN 0 ELSE p.rows}
        /\ p.rows = 0 => p.next = ""}

NoDiscovery ==
    [pc |-> "idle", force |-> FALSE, now |-> 0, hit |-> FALSE, cursor |-> "",
     seen |-> {}, requested |-> <<>>, rows |-> 0, markets |-> 0, failed |-> FALSE,
     next |-> "",
     returned |-> EmptyList, before |-> [cache |-> EmptyList, last_fetch_ts |-> 0],
     since |-> -1]

\* _cache = [] and _last_fetch_ts = 0.0; fetched_at is the start of the last
\* call that sent a request (-1 before the first)
NewConnector(class, page_limit, discovery_limit) ==
    [class |-> class, polyrouter_market_page_limit |-> page_limit,
     market_discovery_limit |-> discovery_limit, wall |-> MARKET_CACHE_TTL_SEC,
     cache |-> EmptyList, last_fetch_ts |-> 0, calls |-> 0, fetched_at |-> -1,
     call |-> NoDiscovery]

\* not force and self._cache and now - self._last_fetch_ts < 30
cache_fresh_forced(c, force, time) ==
    c.cache.n > 0 /\ time - c.last_fetch_ts < MARKET_CACHE_TTL_SEC
cache_fresh(c, force, time) ==
    ~force /\ c.cache.n > 0 /\ time - c.last_fetch_ts < MARKET_CACHE_TTL_SEC

\* the call up to its first await: the cached list, or the first page request
discover_markets(c, force) ==
    LET call == [NoDiscovery EXCEPT
                    !.force = force, !.now = c.wall,
                    !.before = [cache |-> c.cache, last_fetch_ts |-> c.last_fetch_ts],
                    !.since = IF c.fetched_at < 0 THEN -1 ELSE c.wall - c.fetched_at]
    IN  IF cache_fresh(c, force, c.wall)
        THEN [c EXCEPT !.calls = @ + 1,
                       !.call = [call EXCEPT !.pc = "returned", !.hit = TRUE,
                                             !.returned = c.cache]]
        ELSE [c EXCEPT !.calls = @ + 1, !.fetched_at = c.wall,
                       !.call = [call EXCEPT !.pc = "fetching"]]

\* the fetch is over: the cache is replaced and stamped with the call's start
\* time, or, where the connector fetched nothing, the old cache is returned
store_and_return(c, call, markets, keep_cache) ==
    IF keep_cache
    THEN [c EXCEPT !.call = [call EXCEPT !.pc = "returned", !.returned = c.cache]]
    ELSE [c EXCEPT !.cache = MarketList(markets, call.now),
                   !.last_fetch_ts = call.now,
                   !.call = [call EXCEPT !.pc = "returned",
                                         !.returned = MarketList(markets, call.now)]]

\* next_cursor in seen_cursors
cursor_never_seen(seen, next) == FALSE
cursor_seen(seen, next) == next \in seen

\* PolyrouterClient.discover_markets_by_platform: one turn of the page loop
polyrouter_page(c, page) ==
    LET old == c.call
        asked == [old EXCEPT !.requested = Append(@, old.cursor)]
        limit == c.market_discovery_limit
        markets == Min(old.markets + page.kept, Max(limit, old.markets))
        got == [asked EXCEPT !.rows = @ + page.rows, !.markets = markets,
                             !.next = page.next]
        on == [got EXCEPT !.seen = @ \cup {page.next}, !.cursor = page.next]
    IN  CASE ~page.ok -> store_and_return(c, [asked EXCEPT !.failed = TRUE], old.markets, FALSE)
          [] page.rows = 0 -> store_and_return(c, asked, old.markets, FALSE)
          [] markets >= limit -> store_and_return(c, got, markets, FALSE)
          [] page.next = "" \/ cursor_seen(old.seen, page.next) ->
                store_and_return(c, got, markets, FALSE)
          [] Len(on.requested) >= Max(1, c.polyrouter_market_page_limit) ->
                store_and_return(c, on, markets, FALSE)
          [] OTHER -> [c EXCEPT !.call = on]

\* KalshiRestClient.discover_markets over _fetch_series of the one enabled
\* series: one turn of the page loop
kalshi_page(c, page) ==
    LET old == c.call
        asked == [old EXCEPT !.requested = Append(@, old.cursor)]
        got == [asked EXCEPT !.rows = @ + page.rows, !.markets = @ + page.kept,
                             !.next = page.next]
        on == [got EXCEPT !.seen = @ \cup {page.next}, !.cursor = page.next]
    IN  CASE ~page.ok ->
                store_and_return(c, [asked EXCEPT !.failed = TRUE], old.markets, old.rows = 0)
          [] page.rows = 0 -> store_and_return(c, asked, old.markets, old.rows = 0)
          [] page.next = "" \/ cursor_seen(old.seen, page.next) ->
                store_and_return(c, got, got.markets, FALSE)
          [] on.rows >= Max(200, c.market_discovery_limit) ->
                store_and_return(c, on, on.markets, FALSE)
          [] OTHER -> [c EXCEPT !.call = on]

\* PolymarketGammaClient.discover_markets over _fetch_sports_events: one turn
\* of the page loop, pages asked for by offset
gamma_page(c, page) ==
    LET old == c.call
        asked == [old EXCEPT !.requested = Append(@, Len(old.requested) * EVENT_PAGE_SIZE)]
        got == [asked EXCEPT !.rows = @ + page.rows, !.markets = @ + page.kept]
        capped(n) == Min(n, c.market_discovery_limit)
    IN  CASE ~page.ok ->
                store_and_return(c, [asked EXCEPT !.failed = TRUE], capped(old.markets), old.rows = 0)
          [] page.rows = 0 -> store_and_return(c, asked, capped(old.markets), old.rows = 0)
          [] page.rows < EVENT_PAGE_SIZE \/ Len(got.requested) >= EVENT_PAGE_CAP ->
                store_and_return(c, got, capped(got.markets), FALSE)
          [] OTHER -> [c EXCEPT !.call = got]

\* a task calls discover_markets(force)
Discover(force) ==
    /\ connector.call.pc \in {"idle", "returned"}
    /\ connector.calls < MaxCalls
    /\ connector' = discover_markets(connector, force)
    /\ UNCHANGED <<storeVars, router, hub>>

\* the request for the next page is answered, or has failed for good
PageResponse(page) ==
    /\ connector.call.pc = "fetching"
    /\ connector' = CASE connector.class = "polyrouter" -> polyrouter_page(connector, page)
                      [] connector.class = "kalshi" -> kalshi_page(connector, page)
                      [] connector.class = "gamma" -> gamma_page(connector, page)
    /\ UNCHANGED <<storeVars, router, hub>>

\* ten seconds pass
WallTick ==
    /\ connector.wall < MaxWall
    /\ connector' = [connector EXCEPT !.wall = @ + 1]
    /\ UNCHANGED <<storeVars, router, hub>>

----------------------------------------------------------------------------
(* engine/scheduler.py: SignalHub and the snapshot it hands out;            *)
(* routers/signals.py: GET /signals/snapshot and the /signals/ws handler    *)

\* the WebSocket objects; each is accepted once
Sockets == {"w1", "w2", "w3"}

\* the broadcast loop's turns
MaxBroadcasts == 2

\* the keys of the payload _build_snapshot returns
BuiltKeys == {"type", "ts", "data_source", "signals", "orderbooks", "equity_curve"}

\* the keys of _last_snapshot as __init__ sets it
InitialKeys == {"type", "data_source", "signals", "orderbooks"}

\* a payload: its keys, its type and the loop turn that built it (0: none)
Payload(keys, turn) == [keys |-> keys, type |-> "snapshot", turn |-> turn]

NoBroadcast ==
    [pc |-> "idle", payload |-> Payload(InitialKeys, 0), current |-> <<>>,
     members |-> {}, sent |-> <<>>, stale |-> <<>>, removed |-> {}, held |-> FALSE]

\* an empty subscriber set, a free lock and the initial _last_snapshot;
\* delivered holds the payloads handed to subscribers and to GET callers
NewHub ==
    [connections |-> {}, lock |-> "", last_snapshot |-> Payload(InitialKeys, 0),
     delivered |-> {}, turns |-> 0,
     ws |-> [w \in Sockets |-> [pc |-> "closed", payload |-> Payload(InitialKeys, 0)]],
     bc |-> NoBroadcast]

\* the orders in which list(self._connections) may come out
Orders(S) ==
    {order \in [1..Cardinality(S) -> S] :
        \A i, j \in 1..Cardinality(S) : i # j => order[i] # order[j]}

Elements(seq) == {seq[i] : i \in 1..Len(seq)}

\* the stale subscribers are discarded under the lock and broadcast returns
finish_broadcast(h) ==
    [h EXCEPT !.connections = @ \ Elements(h.bc.stale),
              !.bc.removed = h.connections \cap Elements(h.bc.stale),
              !.bc.pc = "done"]

\* except Exception: stale.append(websocket), and on to the next subscriber
failure_ends_broadcast(h, websocket) == [h EXCEPT !.bc.pc = "done"]
send_failed(h, websocket) ==
    LET noted == [h EXCEPT !.bc.stale = Append(@, websocket)]
    IN  IF Len(h.bc.sent) = Len(h.bc.current) THEN finish_broadcast(noted) ELSE noted

\* the send to the next subscriber of the snapshot has ended
send_done(h, ok) ==
    LET websocket == h.bc.current[Len(h.bc.sent) + 1]
        tried == [h EXCEPT !.bc.sent = Append(@, [websocket |-> websocket, ok |-> ok]),
                           !.bc.held = h.bc.held \/ h.lock # ""]
    IN  IF ~ok THEN send_failed(tried, websocket)
        ELSE LET got == [tried EXCEPT !.delivered = @ \cup {h.bc.payload}]
             IN  IF Len(got.bc.sent) = Len(got.bc.current)
                 THEN finish_broadcast(got) ELSE got

\* SignalHub.broadcast up to its first send: the set is copied under the lock
broadcast(h, payload, order) ==
    LET started == [h EXCEPT !.bc = [NoBroadcast EXCEPT !.pc = "sending",
                                                        !.payload = payload,
                                                        !.current = order,
                                                        !.members = h.connections]]
    IN  IF order = <<>> THEN finish_broadcast(started) ELSE started

\* a loop that broadcasts the snapshot it built without keeping it
BroadcastTurnNotKeeping ==
    /\ hub.bc.pc \in {"idle", "done"}
    /\ hub.turns < MaxBroadcasts
    /\ hub.lock = ""
    /\ \E order \in Orders(hub.connections) :
          hub' = broadcast([hub EXCEPT !.turns = @ + 1],
                           Payload(BuiltKeys, hub.turns + 1), order)
    /\ UNCHANGED <<storeVars, router, connector>>

\* _broadcast_loop: build the snapshot, keep it as the latest, broadcast it
BroadcastTurn ==
    /\ hub.bc.pc \in {"idle", "done"}
    /\ hub.turns < MaxBroadcasts
    /\ hub.lock = ""
    /\ \E order \in Orders(hub.connections) :
          hub' = broadcast([hub EXCEPT !.turns = @ + 1,
                                       !.last_snapshot = Payload(BuiltKeys, hub.turns + 1)],
                           Payload(BuiltKeys, hub.turns + 1), order)
    /\ UNCHANGED <<storeVars, router, connector>>

\* _build_snapshot raises: the turn is logged and nothing is sent
BroadcastTurnFails ==
    /\ hub.bc.pc \in {"idle", "done"}
    /\ hub.turns < MaxBroadcasts
    /\ hub' = [hub EXCEPT !.turns = @ + 1]
    /\ UNCHANGED <<storeVars, router, connector>>

\* websocket.send_json(payload) returns or raises
BroadcastSend(ok) ==
    /\ hub.bc.pc = "sending"
    /\ hub' = send_done(hub, ok)
    /\ UNCHANGED <<storeVars, router, connector>>

\* ws_signals: hub.connect accepts the socket
WsAccept(w) ==
    /\ hub.ws[w].pc = "closed"
    /\ hub' = [hub EXCEPT !.ws[w].pc = "accepted"]
    /\ UNCHANGED <<storeVars, router, connector>>

\* hub.connect adds the socket under the lock, and ws_signals sends it
\* latest_snapshot()
WsConnected(w) ==
    /\ hub.ws[w].pc = "accepted"
    /\ hub.lock = ""
    /\ hub' = [hub EXCEPT !.connections = @ \cup {w},
                          !.ws[w] = [pc |-> "greeting", payload |-> hub.last_snapshot]]
    /\ UNCHANGED <<storeVars, router, connector>>

\* the first send returns, or it raises and the handler disconnects
WsGreeted(w, ok) ==
    /\ hub.ws[w].pc = "greeting"
    /\ ok \/ hub.lock = ""
    /\ hub' = IF ok
              THEN [hub EXCEPT !.delivered = @ \cup {hub.ws[w].payload},
                               !.ws[w].pc = "listening"]
              ELSE [hub EXCEPT !.connections = @ \ {w}, !.ws[w].pc = "gone"]
    /\ UNCHANGED <<storeVars, router, connector>>

\* receive_text raises: hub.disconnect discards the socket under the lock
WsDisconnect(w) ==
    /\ hub.ws[w].pc = "listening"
    /\ hub.lock = ""
    /\ hub' = [hub EXCEPT !.connections = @ \ {w}, !.ws[w].pc = "gone"]
    /\ UNCHANGED <<storeVars, router, connector>>

\* GET /signals/snapshot
GetSnapshot ==
    /\ hub.last_snapshot \notin hub.delivered
    /\ hub' = [hub EXCEPT !.delivered = @ \cup {hub.last_snapshot}]
    /\ UNCHANGED <<storeVars, router, connector>>

----------------------------------------------------------------------------
(* The store under discovery, the operator's mapping decisions and the       *)
(* signal loop                                                               *)


InitStore ==
    /\ now = 0
    /\ events = [e \in EventIds |-> NoRow]
    /\ bindings = [k \in BindingKeys |-> NoRow]
    /\ orderbook = [k \in BookKeys |-> NoRow]
    /\ signals = [k \in SignalKeys |-> NoRow]
    /\ nextSignalId = 1
    /\ positions = [p \in PosIds |-> NoRow]
    /\ snapshots = <<>>
    /\ pcSignal = "sleep"
    /\ sess = CleanSession
    /\ cycles = 0
    /\ lastOp = NoOp
    /\ sched = NewScheduler

Init ==
    /\ InitStore
    /\ router = NewRouter(100)
    /\ connector = NewConnector("polyrouter", 3, 500)
    /\ hub = NewHub

Next ==
    \/ \E pairs \in PairLists, raws \in RawListings, tops \in ClobDown :
          DiscoveryCycle(pairs, raws, tops)
    \/ \E key \in BindingKeys : ApproveMapping(key)
    \/ \E key \in BindingKeys : RejectMapping(key)
    \/ \E p \in PolyMarkets, k \in KalshiMarkets :
          /\ bindings[<<"POLY", p>>] # NoRow
          /\ OverridePair(p, k, bindings[<<"POLY", p>>].canonical_event_id)
    \/ SignalRefresh(MaxCycles)
    \/ SignalAutoClose
    \/ SignalMarkToMarket
    \/ SignalCommit
    \/ SignalFail(MaxCycles)

Spec == Init /\ [][Next]_vars


----------------------------------------------------------------------------
(* Properties of the store under Spec *)

\* a binding of the venue for the event that may be traded on
TradableBinding(event_id, venue) ==
    \E m \in MarketsOf(venue) :
        /\ bindings[<<venue, m>>] # NoRow
        /\ bindings[<<venue, m>>].canonical_event_id = event_id
        /\ bindings[<<venue, m>>].status \in {"AUTO", "OVERRIDE"}
        /\ bindings[<<venue, m>>].market_type = "WINNER_BINARY"

\* C1: in every store state, every stored signal has, for its buy venue and
\* for its sell venue, a binding with the signal's event, status AUTO or
\* OVERRIDE and market type WINNER_BINARY.
C1_SignalsHaveTradableBindings ==
    \A key \in SignalKeys :
        signals[key] # NoRow =>
            TradableBinding(key[1], key[3]) /\ TradableBinding(key[1], key[4])

\* C2: a refresh_signals run writes a signal for an event only if, at that
\* run, the event has a POLY and a KALSHI binding with status AUTO or OVERRIDE
\* and market type WINNER_BINARY; the rows of every other event are left as
\* they were.
C2_RefreshWritesOnlyGatedEvents ==
    lastOp.op = "refresh_signals" =>
        \A key \in SignalKeys :
            (key \in lastOp.created \/ signals[key] # lastOp.before[key]) =>
                TradableBinding(key[1], "POLY") /\ TradableBinding(key[1], "KALSHI")

\* C2 witness: one run writes the signals of an event bound (AUTO, OVERRIDE)
\* and none for an event that has both bindings, one of them in REVIEW
C2_Witness ==
    /\ lastOp.op = "refresh_signals"
    /\ \E key \in lastOp.created : key[1] = "e1"
    /\ \A key \in lastOp.created : key[1] # "e2"
    /\ \E m \in PolyMarkets :
          /\ bindings[<<"POLY", m>>] # NoRow
          /\ bindings[<<"POLY", m>>].canonical_event_id = "e2"
          /\ bindings[<<"POLY", m>>].status = "REVIEW"
    /\ \E m \in KalshiMarkets :
          /\ bindings[<<"KALSHI", m>>] # NoRow
          /\ bindings[<<"KALSHI", m>>].canonical_event_id = "e2"

\* a row of the signals table written by the last refresh_signals run
WrittenByRefresh(key) ==
    key \in lastOp.created \/ signals[key] # lastOp.before[key]

\* the events a three-way market is bound to, whatever the binding's status
ThreeWayEvents ==
    {bindings[key].canonical_event_id :
        key \in {k \in BindingKeys : /\ bindings[k] # NoRow
                                      /\ bindings[k].market_type = "WINNER_3WAY"}}

\* C24: a refresh_signals run creates or changes no signal of an event that
\* has a three-way market bound to it, whatever status the override file,
\* an approve request or an override request gave the binding
C24_NoSignalWrittenForThreeWayEvent ==
    lastOp.op = "refresh_signals" =>
        \A key \in SignalKeys : WrittenByRefresh(key) => key[1] \notin ThreeWayEvents

\* a run made while an event has an allowed venue-A binding and the three-way
\* market bound to it with status AUTO or OVERRIDE, and priced books for
\* both: the run writes nothing for it
C24_Witness ==
    /\ lastOp.op = "refresh_signals"
    /\ \E e \in ThreeWayEvents :
          /\ AllowedBindings(bindings, e, "POLY") # {}
          /\ AllowedBindings(bindings, e, "KALSHI") = {"k2"}
          /\ orderbook[<<"KALSHI", "k2", "YES">>] # NoRow
          /\ \E m \in AllowedBindings(bindings, e, "POLY") :
                orderbook[<<"POLY", m, "YES">>] # NoRow
          /\ \A key \in SignalKeys : WrittenByRefresh(key) => key[1] # e

\* the same with the three-way binding's status AUTO, from an override file
\* row that gives this status
C24_WitnessAuto ==
    /\ lastOp.op = "refresh_signals"
    /\ bindings[<<"KALSHI", "k2">>] # NoRow
    /\ bindings[<<"KALSHI", "k2">>].status = "AUTO"
    /\ AllowedBindings(bindings, bindings[<<"KALSHI", "k2">>].canonical_event_id, "POLY") # {}
    /\ \A key \in SignalKeys :
          WrittenByRefresh(key) => key[1] # bindings[<<"KALSHI", "k2">>].canonical_event_id


----------------------------------------------------------------------------
(* The signals of one tradable pair under changing quotes and a running      *)
(* clock                                                                     *)

QuotePairs == <<ResolvedPair("p1", "k1", "AUTO")>>

\* venue A lists p1 with an edge over k1, with too thin an edge, without
\* prices, or without size
QuoteListings ==
    {[p1 |-> q, p2 |-> Unpriced, k1 |-> Priced(4900, 5000, 300, 250), k2 |-> Unpriced] :
        q \in {Priced(40, 41, 300, 250), Priced(47, 48, 300, 250), Unpriced,
               Priced(40, 41, 0, 0)}}

QuoteTops ==
    {NoTops,
     [NoTops EXCEPT !["p1"] = [best_bid |-> 42, best_ask |-> 43,
                               bid_size |-> 100, ask_size |-> 100]]}

NextQuote ==
    \/ \E raws \in QuoteListings, tops \in QuoteTops :
          DiscoveryCycle(QuotePairs, raws, tops)
    \/ Tick
    \/ SignalRefresh(MaxQuoteCycles)
    \/ SignalAutoClose
    \/ SignalMarkToMarket
    \/ SignalCommit
    \/ SignalFail(MaxQuoteCycles)

SpecQuote == Init /\ [][NextQuote]_vars


\* the market a venue's tradable binding gives for an event
BoundMarket(event_id, venue) ==
    CHOOSE m \in MarketsOf(venue) :
        /\ bindings[<<venue, m>>] # NoRow
        /\ bindings[<<venue, m>>].canonical_event_id = event_id

\* C3: a refresh_signals run writes no signal for (event, outcome) when a
\* venue's quote is missing, the suggested size is not positive, the visible
\* depth is below size * depth_multiplier, or the edge after costs of the
\* direction is below min_edge.
C3_NoSignalWithoutQuoteSizeDepthEdge ==
    lastOp.op = "refresh_signals" =>
        \A key \in SignalKeys :
            WrittenByRefresh(key) =>
                LET buy == get_quote(orderbook, key[3], BoundMarket(key[1], key[3]), key[2])
                    sell == get_quote(orderbook, key[4], BoundMarket(key[1], key[4]), key[2])
                IN  /\ buy # NoQuote
                    /\ sell # NoQuote
                    /\ suggested_size(buy, sell) > 0
                    /\ buy.ask_size * 10000 * depth_multiplier_den
                           >= suggested_size(buy, sell) * depth_multiplier_num
                    /\ sell.bid_size * 10000 * depth_multiplier_den
                           >= suggested_size(buy, sell) * depth_multiplier_num
                    /\ compute_edge(buy, sell, key[3], key[4]).edge_after_costs >= min_edge

\* C3 witness: a run over a tradable pair with both quotes present and an edge
\* below min_edge in both directions, which writes nothing for the outcome
C3_Witness ==
    /\ lastOp.op = "refresh_signals"
    /\ "e1" \in load_binding_pairs(events, bindings)
    /\ StartsLateEnough(events, "e1")
    /\ LET poly == get_quote(orderbook, "POLY", "p1", "YES")
           kalshi == get_quote(orderbook, "KALSHI", "k1", "YES")
       IN  /\ poly # NoQuote
           /\ kalshi # NoQuote
           /\ suggested_size(poly, kalshi) > 0
           /\ compute_edge(poly, kalshi, "POLY", "KALSHI").edge_after_costs < min_edge
           /\ compute_edge(kalshi, poly, "KALSHI", "POLY").edge_after_costs < min_edge
    /\ \A key \in SignalKeys :
          key[1] = "e1" /\ key[2] = "YES" => ~WrittenByRefresh(key)

\* C4 (as the code has it): a refresh_signals run at time t writes signals
\* only for events that start at or after t + min_seconds_to_start.
C4_NoSignalForEventStartingSooner ==
    lastOp.op = "refresh_signals" =>
        \A key \in SignalKeys :
            WrittenByRefresh(key) =>
                events[key[1]].start_time_utc >= lastOp.at + min_seconds_to_start

\* C4 witness: a run over a tradable pair with a sufficient edge whose event
\* starts sooner than min_seconds_to_start after the run; nothing is written
C4_Witness ==
    /\ lastOp.op = "refresh_signals"
    /\ now = lastOp.at
    /\ "e1" \in load_binding_pairs(events, bindings)
    /\ events["e1"].start_time_utc < lastOp.at + min_seconds_to_start
    /\ evaluate_pair(orderbook, bindings, "e1", "YES") # NoSignal
    /\ lastOp.created = {}
    /\ signals = lastOp.before

\* C4 as stated: signals are written only for events that start strictly
\* later than t + min_seconds_to_start.
C4_StrictlyLater ==
    lastOp.op = "refresh_signals" =>
        \A key \in SignalKeys :
            WrittenByRefresh(key) =>
                events[key[1]].start_time_utc > lastOp.at + min_seconds_to_start

\* the values a run upserts for a key equal the columns of the stored row
SameValues(signal, row) ==
    /\ signal # NoSignal
    /\ signal.buy_market_id = row.buy_market_id
    /\ signal.sell_market_id = row.sell_market_id
    /\ signal.buy_price = row.buy_price
    /\ signal.sell_price = row.sell_price
    /\ signal.size_suggested = row.size_suggested
    /\ signal.edge_raw = row.edge_raw
    /\ signal.edge_after_costs = row.edge_after_costs
    /\ signal.confidence = row.confidence
    /\ signal.status = row.status

\* C10: upserting a signal whose key is already stored, with the values it is
\* stored with, keeps the key's row (same id) and changes no column of it
\* other than created_at.
C10_SecondUpsertChangesOnlyCreatedAt ==
    lastOp.op = "refresh_signals" =>
        \A key \in lastOp.created :
            (/\ lastOp.before[key] # NoRow
             /\ SameValues(evaluate_pair(orderbook, bindings, key[1], key[2]),
                           lastOp.before[key]))
            => signals[key] = [lastOp.before[key] EXCEPT !.created_at = lastOp.at]

\* C10 witness: a later run upserts an unchanged signal again; the row keeps
\* its id and carries the later run's created_at
C10_Witness ==
    /\ lastOp.op = "refresh_signals"
    /\ \E key \in lastOp.created :
          /\ lastOp.before[key] # NoRow
          /\ SameValues(evaluate_pair(orderbook, bindings, key[1], key[2]),
                        lastOp.before[key])
          /\ lastOp.before[key].created_at < lastOp.at
          /\ signals[key].created_at = lastOp.at
          /\ signals[key].id = lastOp.before[key].id


----------------------------------------------------------------------------
(* The signal cycle over paper positions *)

CyclePairs == <<ResolvedPair("p1", "k1", "AUTO")>>

RequestedSizes == {NoSize}

NextCycle ==
    \/ \E raws \in RawListings, tops \in ClobDown : DiscoveryCycle(CyclePairs, raws, tops)
    \/ Tick
    \/ \E signal_id \in 1..2, size \in RequestedSizes, hit \in BOOLEAN :
          Simulate(signal_id, size, hit, hit)
    \/ \E p \in PosIds : ClosePosition(p)
    \/ SignalRefresh(MaxQuoteCycles)
    \/ SignalAutoClose
    \/ SignalMarkToMarket
    \/ SignalCommit
    \/ SignalFail(MaxQuoteCycles)

SpecCycle == Init /\ [][NextCycle]_vars


\* C5: a signal cycle that fails in any of its three steps commits none of
\* its writes, the signal upserts included: after the failure the signals
\* table is the one the cycle started with.
C5_FailedCycleCommitsNothing ==
    lastOp.op = "signal_cycle_failed" =>
        /\ signals = lastOp.before
        /\ sess = CleanSession

\* the position as the cycle's session has it
InSession(p) == IF p \in DOMAIN sess.dirty THEN sess.dirty[p] ELSE positions[p]

StepOrder == <<"refresh_signals", "auto_close_started_events", "mark_to_market">>

\* C6: the steps of a signal cycle run in the order refresh_signals,
\* auto_close_started_events, mark_to_market, each at most once per cycle, and
\* mark_to_market sees the positions its cycle's auto-close has closed: they
\* are CLOSED with no unrealized PnL and their realized PnL is in the
\* snapshot's realized total, not in its unrealized one.
C6_StepsInOrderAndMarkSeesClosed ==
    /\ Len(sess.steps) <= 3
    /\ \A i \in 1..Len(sess.steps) : i <= 3 /\ sess.steps[i] = StepOrder[i]
    /\ pcSignal = "marked" =>
          /\ \A p \in sess.closed :
                /\ InSession(p).status = "CLOSED"
                /\ InSession(p).unrealized_pnl = 0
          /\ sess.snapshot.realized_pnl =
                SumOver({p \in PosIds : positions[p] # NoRow /\ InSession(p).status = "CLOSED"},
                        [p \in PosIds |-> InSession(p)], "realized_pnl")
          /\ sess.snapshot.unrealized_pnl =
                SumOver({p \in PosIds : positions[p] # NoRow /\ InSession(p).status = "OPEN"},
                        [p \in PosIds |-> InSession(p)], "unrealized_pnl")

\* C6 witness: a cycle's auto-close has closed a position with a gain and
\* its mark_to_market has run
C6_Witness ==
    /\ pcSignal = "marked"
    /\ sess.steps = StepOrder
    /\ \E p \in sess.closed :
          /\ positions[p].status = "OPEN"
          /\ InSession(p).status = "CLOSED"
          /\ InSession(p).realized_pnl > 0
          /\ sess.snapshot.realized_pnl >= InSession(p).realized_pnl


----------------------------------------------------------------------------
(* The scheduler's three loops and stop() *)

DiscoveryStep ==
    \/ DiscoveryLoopStart
    \/ \E raws \in RawListings : DiscoveryLoopPersist(CyclePairs, raws)
    \/ \E tops \in QuoteTops : DiscoveryLoopBooks(CyclePairs, tops)
    \/ DiscoveryLoopFail
    \/ LoopWake("discovery")
    \/ LoopCancelled("discovery")

SignalStep ==
    \/ SignalLoopCycle
    \/ \E committed \in BOOLEAN : SignalLoopFail(committed)
    \/ LoopWake("signal")
    \/ LoopCancelled("signal")

BroadcastStep ==
    \/ BroadcastLoopBuild
    \/ BroadcastLoopSent
    \/ BroadcastLoopFail
    \/ LoopWake("broadcast")
    \/ LoopCancelled("broadcast")

StopStep == StopGathered \/ StopClose

NextSched == DiscoveryStep \/ SignalStep \/ BroadcastStep \/ StopCall \/ StopStep

\* every sleep ends, every cancellation is delivered and stop() goes on
\* when what it awaits is done
SpecSched ==
    /\ Init
    /\ [][NextSched]_vars
    /\ \A l \in Loops : WF_vars(LoopWake(l)) /\ WF_vars(LoopCancelled(l))
    /\ WF_vars(StopStep)


\* the step in which a cycle of the loop raises
FailureOf(l) ==
    CASE l = "discovery" -> DiscoveryLoopFail
      [] l = "signal" -> \E committed \in BOOLEAN : SignalLoopFail(committed)
      [] l = "broadcast" -> BroadcastLoopFail

\* C7: an exception in a cycle of a loop leaves that loop's task alive at
\* its sleep and the tasks of the other two loops as they were, and while
\* stop has not been requested a loop that failed a cycle comes back from its
\* sleep for a next one.
C7_FailedCycleIsSkipped ==
    /\ [][\A l \in Loops :
            FailureOf(l) =>
                /\ sched'.task[l] = "sleeping"
                /\ sched'.cancel = sched.cancel
                /\ \A o \in Loops \ {l} :
                      /\ sched'.task[o] = sched.task[o]
                      /\ sched'.last[o] = sched.last[o]]_vars
    /\ \A l \in Loops :
          (sched.last[l] = "failed" /\ sched.task[l] = "sleeping")
              ~> (sched.task[l] = "ready" \/ sched.stop_event)

\* C7 witness: the discovery loop is in a cycle begun after a failed one,
\* while the signal loop has completed a cycle
C7_Witness ==
    /\ sched.last["discovery"] = "failed"
    /\ sched.task["discovery"] = "discovering"
    /\ sched.last["signal"] = "ok"
    /\ ~sched.stop_event

\* C8: stop() gets past its gather only when all three tasks have ended and
\* returns only with the four HTTP clients closed; once it has returned no
\* task steps and the store does not change; and a stop() that was called
\* returns.
C8_StopEndsLoopsAndClosesClients ==
    /\ [](sched.stop \in {"closing", "returned"} =>
            \A l \in Loops : sched.task[l] = "cancelled")
    /\ [](sched.stop = "returned" => sched.closed = ClientOrder)
    /\ [][sched.stop = "returned" =>
            UNCHANGED <<events, bindings, orderbook, signals, positions, snapshots, sched>>]_vars
    /\ sched.stop_event ~> (sched.stop = "returned")

\* C8 witness: stop() has returned after cancelling a discovery loop that
\* waited on a request and a signal loop that slept
C8_Witness ==
    /\ sched.stop = "returned"
    /\ sched.closed = ClientOrder
    /\ sched.waited["discovery"] = "discovering"
    /\ sched.waited["signal"] = "sleeping"
    /\ \A l \in Loops : sched.task[l] = "cancelled"


----------------------------------------------------------------------------
(* The order book under its writers *)

BookTops == {Quoted(42, 43, 100, 100), Quoted(40, 41, 300, 250)}

BookRaws ==
    {Unpriced, Priced(40, 41, 300, 250), Priced(4900, 5000, 200, 150),
     [Priced(45, 46, 120, 80) EXCEPT !.no_bid = 54, !.no_ask = 55]}

NextBook ==
    \/ \E venue \in Venue : \E m \in {"p1", "k1"} \cap MarketsOf(venue) :
          \E raw \in BookRaws : BookSeed(venue, m, raw)
    \/ \E top \in BookTops : RefreshPolyBook("p1", top)
    \/ \E venue \in Venue : \E m \in {"p1", "k1"} \cap MarketsOf(venue) :
          \E outcome \in Outcomes, top \in BookTops :
             RefreshPolyrouterBook(venue, m, outcome, top)

SpecBook == Init /\ [][NextBook]_vars

\* the bid, ask and sizes get_top returns for a key, or NoRow
TopOf(key) ==
    LET row == get_top(orderbook, key[1], key[2], key[3])
    IN  IF row = NoRow THEN NoRow
        ELSE Quoted(row.best_bid, row.best_ask, row.bid_size, row.ask_size)

\* C9: after any sequence of upserts by the order book's writers, get_top
\* returns for every key the bid, ask and sizes of the latest upsert to that
\* key, or nothing if the key was never written, and an upsert leaves the
\* rows of all other keys as they were.
C9_LastWriterWinsPerKey ==
    lastOp.op = "upsert_top" =>
        \A key \in BookKeys :
            /\ TopOf(key) = lastOp.latest[key]
            /\ key \notin lastOp.keys => orderbook[key] = lastOp.before[key]

\* C9 witness: a key written twice with different tops holds the second,
\* next to a key of the other venue written before and one never written
C9_Witness ==
    /\ lastOp.op = "upsert_top"
    /\ \E key \in lastOp.keys :
          /\ lastOp.before[key] # NoRow
          /\ lastOp.before[key].best_bid # orderbook[key].best_bid
          /\ TopOf(key) = lastOp.latest[key]
          /\ \E other \in BookKeys \ lastOp.keys :
                other[1] # key[1] /\ orderbook[other] # NoRow
    /\ \E key \in BookKeys : lastOp.latest[key] = NoRow /\ orderbook[key] = NoRow

----------------------------------------------------------------------------
(* The order book under repeated upserts and a running clock *)

NextUpsert ==
    \/ \E top \in BookTops : RefreshPolyBook("p1", top)
    \/ \E raw \in {Priced(4900, 5000, 200, 150),
                    [Priced(45, 46, 120, 80) EXCEPT !.no_bid = 54, !.no_ask = 55]} :
          BookSeed("KALSHI", "k1", raw)
    \/ Tick

SpecUpsert == Init /\ [][NextUpsert]_vars

\* the last upsert wrote, under every key it touched, the bid, ask and sizes
\* the key already held
SameTopAgain ==
    /\ lastOp.op = "upsert_top"
    /\ lastOp.keys # {}
    /\ \A key \in lastOp.keys :
          /\ lastOp.before[key] # NoRow
          /\ Quoted(lastOp.before[key].best_bid, lastOp.before[key].best_ask,
                    lastOp.before[key].bid_size, lastOp.before[key].ask_size)
                = lastOp.latest[key]

\* C12 as stated: a second upsert_top with the same venue, market, outcome,
\* prices and sizes leaves the stored order book equal to what it was after
\* the first.
C12_SameUpsertLeavesStateEqual ==
    SameTopAgain => orderbook = lastOp.before

\* C12 amended: a second upsert_top with the same venue, market, outcome,
\* prices and sizes changes nothing but the ts of the row it names, which
\* does not go back; every other row stays as it was.
C12_SameUpsertChangesOnlyTs ==
    SameTopAgain =>
        \A key \in BookKeys :
            IF key \in lastOp.keys
            THEN /\ orderbook[key] = [lastOp.before[key] EXCEPT !.ts = orderbook[key].ts]
                 /\ orderbook[key].ts >= lastOp.before[key].ts
            ELSE orderbook[key] = lastOp.before[key]

\* C12 witness: the same top upserted again at a later time, with another
\* key's row standing by
C12_Witness ==
    /\ SameTopAgain
    /\ \E key \in lastOp.keys : orderbook[key].ts > lastOp.before[key].ts
    /\ \E other \in BookKeys \ lastOp.keys : orderbook[other] # NoRow

----------------------------------------------------------------------------
(* The discovery cycle from the venues' listings *)

\* what the two venues list in one cycle: a game both date, a game neither
\* dates, a game only venue B dates, two games of which venue B lists the
\* second three-way, two games of which venue B lists only the first, and a
\* cycle in which venue B lists nothing
ListedMarkets ==
    {<<<<Listing("POLY", "p1", 2)>>, <<Listing("KALSHI", "k1", 2)>>>>,
     <<<<Listing("POLY", "p1", 2), Listing("POLY", "p2", 3)>>,
       <<Listing("KALSHI", "k1", 3)>>>>,
     <<<<Listing("POLY", "p1", NoPrice)>>, <<Listing("KALSHI", "k1", NoPrice)>>>>,
     <<<<Listing("POLY", "p1", NoPrice)>>, <<Listing("KALSHI", "k1", 3)>>>>,
     <<<<Listing("POLY", "p1", 2), Listing("POLY", "p2", 3)>>,
       <<Listing("KALSHI", "k1", 3), Listing("KALSHI", "k2", 3)>>>>,
     <<<<Listing("POLY", "p1", 2)>>, <<>>>>}

\* the override file: empty, or naming the pair of p1 and k1
OverrideFiles ==
    {NoOverrides,
     [key \in {<<"p1", "k1">>} |-> [status |-> "OVERRIDE", confidence |-> 10000]]}

NextDiscovery ==
    \/ \E listed \in ListedMarkets, overrides \in OverrideFiles :
          \E raws \in RawListings, tops \in ClobDown :
             DiscoveryRun(listed[1], listed[2], overrides, raws, tops)
    \/ Tick

SpecDiscovery == Init /\ [][NextDiscovery]_vars

EventRows(evs) == {e \in EventIds : evs[e] # NoRow}

\* C11: a discovery cycle run again on the same listings and overrides, with
\* no other write in between, adds no event row and no binding row and
\* changes no binding's canonical_event_id, status, confidence or market_type.
C11_SecondRunChangesNoRow ==
    (lastOp.op = "discovery" /\ lastOp.repeat) =>
        /\ EventRows(events) = EventRows(lastOp.before.events)
        /\ bindings = lastOp.before.bindings

\* the places of the log at which an operation of the given kinds stands
LogPlaces(ops) == {i \in 1..Len(lastOp.log) : lastOp.log[i].op \in ops}

\* C13: within one discovery cycle each pair's event is upserted before either
\* of its bindings, every event and binding upsert precedes every order-book
\* seeding, and the top-of-book fetches start only after the commit.
C13_EventThenBindingsThenSeedingThenFetch ==
    lastOp.op = "discovery" =>
        /\ \A j \in LogPlaces({"upsert_binding"}) :
              \E i \in LogPlaces({"upsert_event"}) :
                 i < j /\ lastOp.log[i].pair = lastOp.log[j].pair
        /\ \A i \in LogPlaces({"upsert_event", "upsert_binding"}) :
              \A j \in LogPlaces({"seed_orderbook"}) : i < j
        /\ \A j \in LogPlaces({"fetch_top_of_book"}) :
              \E i \in LogPlaces({"commit"}) :
                 /\ i < j
                 /\ \A k \in LogPlaces({"upsert_event", "upsert_binding", "seed_orderbook"}) :
                       k < i

\* C13 witness: a committed cycle of two pairs that upserted two events and
\* four bindings, seeded the books and went on to fetch a top
C13_Witness ==
    /\ lastOp.op = "discovery"
    /\ Len(lastOp.pairs) = 2
    /\ LogPlaces({"upsert_binding"}) # {}
    /\ LogPlaces({"seed_orderbook"}) # {}
    /\ LogPlaces({"commit"}) # {}
    /\ LogPlaces({"fetch_top_of_book"}) # {}
    /\ \E e \in EventIds : events[e] # NoRow /\ lastOp.before.events[e] = NoRow
    /\ \E key \in BookKeys : orderbook[key] # NoRow

----------------------------------------------------------------------------
(* The rate gate and the retry loop of the router client                    *)

InitRouter ==
    /\ InitStore
    /\ router \in {NewRouter(setting) : setting \in ReqPerMinSettings}
    /\ connector = NewConnector("polyrouter", 3, 500)
    /\ hub = NewHub

NextRouter ==
    \/ \E c \in Callers : Request(c)
    \/ \E c \in Callers : LockGranted(c)
    \/ \E c \in Callers : GateWake(c)
    \/ \E response \in Responses : Respond("c1", response)
    \/ Respond("c2", "ok")
    \/ \E c \in Callers : BackoffWake(c)
    \/ Advance
    \/ Elapse

SpecRouter == InitRouter /\ [][NextRouter]_vars

\* the event loop runs every task that is ready, and time passes
SpecRouterFair ==
    /\ SpecRouter
    /\ WF_vars(Advance)
    /\ \A c \in Callers : WF_vars(LockGranted(c)) /\ WF_vars(GateWake(c))

Failures(responses) == {i \in 1..Len(responses) : responses[i] # "ok"}

\* C14: a request makes at most 4 attempts, returns the payload of the first
\* attempt that succeeds and makes no attempt after it (429 then 200 gives the
\* payload on the second attempt after a positive sleep), and returns null,
\* without raising, when all 4 attempts fail in any mix of 429 and others
C14_AtMostFourAttemptsPayloadOrNull ==
    \A c \in Callers :
        LET call == router.call[c]
            n == Len(call.responses)
        IN  /\ n <= 4
            /\ call.attempt < 4
            /\ call.pc # "raised"
            /\ \A i \in 1..n : call.responses[i] = "ok" => i = n
            /\ n > 0 /\ call.responses[n] = "ok"
                    => call.pc = "done" /\ call.result = "payload"
            /\ call.responses = <<"429", "ok">> => call.slept > 0
            /\ call.pc = "done" /\ (n = 0 \/ call.responses[n] # "ok")
                    => /\ call.result = "null"
                       /\ Cardinality(Failures(call.responses)) = 4
            /\ Cardinality(Failures(call.responses)) = 4
                    => call.pc \in {"backoff", "done"}
            /\ call.pc # "done" => call.result = "none"

\* a 429 followed by a 200, and beside it four failures of both kinds
C14_Witness ==
    /\ router.call["c1"].pc = "done"
    /\ router.call["c1"].responses = <<"429", "ok">>
    /\ router.call["c1"].result = "payload"
    /\ router.call["c1"].slept = Base429

C14_WitnessAllFail ==
    /\ router.call["c1"].pc = "done"
    /\ router.call["c1"].responses = <<"429", "error", "error", "429">>
    /\ router.call["c1"].result = "null"

InGate(c) == router.call[c].pc \in {"granted", "gate_sleep"}

\* the interval the claim names, in fiftieths of a second
ClaimedInterval ==
    LET setting == router.polyrouter_req_per_min
    IN  MonoPerMinute \div (IF setting < 1 THEN 1 ELSE IF setting > 1000 THEN 1000 ELSE setting)

GateSafe ==
    /\ Cardinality({c \in Callers : InGate(c)}) <= 1
    /\ router.gap = -1 \/ router.gap >= ClaimedInterval

\* C15: for any interleaving of concurrent callers at most one caller is
\* inside the rate gate at a time, two consecutive passes are at least
\* min_interval = 60 / req_per_minute apart (clamped to 1..1000), and every
\* caller that came to the gate eventually passes it
C15_GateSerialisesAndLetsPass ==
    /\ []GateSafe
    /\ \A c \in Callers :
          (router.call[c].pc \in {"queued", "granted", "gate_sleep"})
              ~> (router.call[c].pc = "send")

\* one caller sleeps inside the gate for the rest of the interval while the
\* other waits for the lock
C15_Witness ==
    /\ router.call["c1"].pc = "gate_sleep"
    /\ router.call["c2"].pc = "queued"
    /\ router.gap >= ClaimedInterval
    /\ router.call["c1"].attempt > 0

----------------------------------------------------------------------------
(* Market discovery of one connector under a running wall clock             *)

InitConnector ==
    /\ InitStore
    /\ router = NewRouter(100)
    /\ connector \in {NewConnector(class, page_limit, discovery_limit) :
                         class \in Connectors, page_limit \in PageLimits,
                         discovery_limit \in DiscoveryLimits}
    /\ hub = NewHub

NextConnector ==
    \/ \E force \in BOOLEAN : Discover(force)
    \/ \E page \in ServerPages : PageResponse(page)
    \/ WallTick

SpecConnector == InitConnector /\ [][NextConnector]_vars

\* C16: when a page of a discovery fetch has failed for good, the connector
\* keeps its previously cached list and returns it; a failed fetch never
\* replaces a non-empty cache with fewer markets
C16_FailedFetchKeepsCache ==
    LET call == connector.call
    IN  call.pc = "returned" /\ call.failed
            => /\ connector.cache = call.before.cache
               /\ call.returned = call.before.cache
               /\ connector.cache.n >= call.before.cache.n

\* C17 as stated: a call without force, made less than 30 s after the
\* previous call that fetched, sends no request and returns the cached list; a forced call, or
\* one made 30 s or more after that call, fetches
C17_FreshCallSkipsFetch ==
    LET call == connector.call
    IN  call.pc # "idle"
            => /\ ~call.force /\ call.since >= 0 /\ call.since < MARKET_CACHE_TTL_SEC
                    => call.hit /\ call.requested = <<>> /\ call.returned = call.before.cache
               /\ call.force \/ call.since >= MARKET_CACHE_TTL_SEC => ~call.hit

\* C17: a call without force, made while the cache is non-empty and less than
\* 30 s after the fetch that stored it, sends no request and returns the
\* cached list; a forced call, a call with an empty cache, or one made 30 s
\* or more after that fetch, fetches again
C17_FreshNonEmptyCacheSkipsFetch ==
    LET call == connector.call
        fresh == call.now - call.before.last_fetch_ts < MARKET_CACHE_TTL_SEC
    IN  /\ connector.cache.n > 0 => connector.cache.at = connector.last_fetch_ts
        /\ call.pc # "idle"
            => /\ ~call.force /\ call.before.cache.n > 0 /\ fresh
                    => /\ call.hit /\ call.pc = "returned" /\ call.requested = <<>>
                       /\ call.returned = call.before.cache
                       /\ connector.cache = call.before.cache
               /\ call.force \/ call.before.cache.n = 0 \/ ~fresh => ~call.hit

\* a second call, twenty seconds after the fetch, gets the cached list
C17_Witness ==
    /\ connector.calls = 2
    /\ connector.call.hit
    /\ connector.call.returned.n > 0
    /\ connector.call.now = connector.last_fetch_ts + 2

\* the most rows _fetch_series collects before it asks for another page
ItemCap == IF connector.market_discovery_limit > 200
           THEN connector.market_discovery_limit ELSE 200

----------------------------------------------------------------------------
(* The hub under broadcasts, connecting and disconnecting subscribers       *)

NextHub ==
    \/ BroadcastTurn
    \/ BroadcastTurnFails
    \/ \E ok \in BOOLEAN : BroadcastSend(ok)
    \/ \E w \in Sockets : WsAccept(w)
    \/ \E w \in Sockets : WsConnected(w)
    \/ \E w \in Sockets, ok \in BOOLEAN : WsGreeted(w, ok)
    \/ \E w \in Sockets : WsDisconnect(w)
    \/ GetSnapshot

SpecHub == Init /\ [][NextHub]_vars

FailedSends == {hub.bc.sent[i].websocket : i \in {k \in 1..Len(hub.bc.sent) : ~hub.bc.sent[k].ok}}

\* C19: for any interleaving of broadcast with connect and disconnect,
\* broadcast sends the payload once to each subscriber that was in the set
\* when it copied it under the lock, sends while not holding the lock, goes on
\* after a failed send, and has, when it returns, removed every subscriber
\* whose send failed and none whose send succeeded
C19_BroadcastSendsOnceAndRemovesOnlyFailed ==
    LET bc == hub.bc
        n == Len(bc.current)
    IN  /\ Elements(bc.current) = bc.members
        /\ \A i, j \in 1..n : i # j => bc.current[i] # bc.current[j]
        /\ Len(bc.sent) <= n
        /\ \A i \in 1..Len(bc.sent) : bc.sent[i].websocket = bc.current[i]
        /\ ~bc.held
        /\ bc.pc = "sending" => hub.lock = "" /\ Len(bc.sent) < n
        /\ bc.pc = "done"
            => /\ Len(bc.sent) = n
               /\ FailedSends \cap hub.connections = {}
               /\ bc.removed \subseteq FailedSends
               /\ Elements(bc.stale) = FailedSends
        /\ \A p \in hub.delivered : p.turn <= hub.turns

\* a broadcast returned after a failed send followed by a successful one: the
\* failed subscriber is gone, the other one and a subscriber that connected
\* during the sends are in the set
C19_Witness ==
    /\ hub.bc.pc = "done"
    /\ hub.bc.removed # {}
    /\ \E i, j \in 1..Len(hub.bc.sent) :
          /\ i < j
          /\ ~hub.bc.sent[i].ok
          /\ hub.bc.sent[j].ok
          /\ hub.bc.sent[j].websocket \in hub.connections
    /\ hub.connections \ hub.bc.members # {}

\* C20: every snapshot delivered to a subscriber or returned by
\* latest_snapshot(), one read before the first broadcast turn included, has
\* type "snapshot" and the fields ts, data_source, signals, orderbooks and
\* equity_curve
C20_EverySnapshotHasAllFields ==
    \A p \in hub.delivered :
        /\ p.type = "snapshot"
        /\ {"type", "ts", "data_source", "signals", "orderbooks", "equity_curve"}
                \subseteq p.keys

----------------------------------------------------------------------------
(* The resolver as a function of its inputs: resolve_markets is applied to   *)
(* two listings and an override file, then to the same listings swapped.     *)
(* Start times are in clock units of 300 s                                   *)

\* the markets a venue may list: the same NBA game at several start times,
\* with the sides swapped, against another opponent, without a start time and
\* with three or with unrecognised outcomes; a soccer game in two supported
\* competitions, in none, at several start times and with the sides swapped;
\* and a market of no recognised sport
MarketKinds ==
    {VenueMarket("", "", "NBA", "NBA", 100, "chicago bulls", "brooklyn nets", "WINNER_BINARY"),
     VenueMarket("", "", "NBA", "NBA", 140, "chicago bulls", "brooklyn nets", "WINNER_BINARY"),
     VenueMarket("", "", "NBA", "NBA", 196, "chicago bulls", "brooklyn nets", "WINNER_BINARY"),
     VenueMarket("", "", "NBA", "NBA", 100, "brooklyn nets", "chicago bulls", "WINNER_BINARY"),
     VenueMarket("", "", "NBA", "NBA", 100, "chicago bulls", "phoenix suns", "WINNER_BINARY"),
     VenueMarket("", "", "NBA", "NBA", NoPrice, "chicago bulls", "brooklyn nets", "WINNER_BINARY"),
     VenueMarket("", "", "NBA", "NBA", 100, "chicago bulls", "brooklyn nets", "WINNER_3WAY"),
     VenueMarket("", "", "NBA", "NBA", 100, "chicago bulls", "brooklyn nets", "OTHER"),
     VenueMarket("", "", "SOCCER", "UCL", 100, "real madrid", "barcelona", "WINNER_BINARY"),
     VenueMarket("", "", "SOCCER", "EPL", 100, "real madrid", "barcelona", "WINNER_BINARY"),
     VenueMarket("", "", "SOCCER", "UCL", 220, "real madrid", "barcelona", "WINNER_BINARY"),
     VenueMarket("", "", "SOCCER", "UCL", 260, "real madrid", "barcelona", "WINNER_BINARY"),
     VenueMarket("", "", "SOCCER", "UCL", 100, "barcelona", "real madrid", "WINNER_BINARY"),
     VenueMarket("", "", "SOCCER", NoCompetition, 100, "real madrid", "barcelona", "WINNER_BINARY"),
     VenueMarket("", "", "UNKNOWN", NoCompetition, 100, "chicago bulls", "brooklyn nets", "WINNER_BINARY")}

\* a market of a kind as one venue lists it
Listed(kind, venue, market_id) ==
    [kind EXCEPT !.venue = venue, !.venue_market_id = market_id]

\* the listings of a venue: no market, one, or two with distinct ids
ListingsOf(venue, first_id, second_id) ==
    {<<>>}
        \cup {<<Listed(kind, venue, first_id)>> : kind \in MarketKinds}
        \cup {<<Listed(first, venue, first_id), Listed(second, venue, second_id)>> :
                 first \in MarketKinds, second \in MarketKinds}

\* the override file: empty, or one row for the pair (a1, b1), which
\* load_overrides completes with status OVERRIDE and confidence 1.0 when the
\* row gives none
ResolverOverrides ==
    {NoOverrides,
     [key \in {<<"a1", "b1">>} |-> [status |-> "OVERRIDE", confidence |-> 10000]],
     [key \in {<<"a1", "b1">>} |-> [status |-> "AUTO", confidence |-> 9000]]}

InitResolve ==
    /\ now = 0
    /\ events = [e \in EventIds |-> NoRow]
    /\ bindings = [k \in BindingKeys |-> NoRow]
    /\ orderbook = [k \in BookKeys |-> NoRow]
    /\ signals = [k \in SignalKeys |-> NoRow]
    /\ nextSignalId = 1
    /\ positions = [p \in PosIds |-> NoRow]
    /\ snapshots = <<>>
    /\ pcSignal = "sleep"
    /\ sess = CleanSession
    /\ cycles = 0
    /\ sched = NewScheduler
    /\ router = NewRouter(100)
    /\ connector = NewConnector("polyrouter", 3, 500)
    /\ hub = NewHub
    /\ \E polymarket_markets \in ListingsOf("POLY", "a1", "a2"),
          kalshi_markets \in ListingsOf("KALSHI", "b1", "b2"),
          overrides \in ResolverOverrides :
          lastOp = [op |-> "listed", polymarket_markets |-> polymarket_markets,
                    kalshi_markets |-> kalshi_markets, overrides |-> overrides]

\* resolve_markets(polymarket_markets, kalshi_markets, overrides=overrides)
Resolve ==
    /\ lastOp.op = "listed"
    /\ lastOp' = [op |-> "resolve_markets",
                  polymarket_markets |-> lastOp.polymarket_markets,
                  kalshi_markets |-> lastOp.kalshi_markets,
                  overrides |-> lastOp.overrides,
                  pairs |-> resolve_markets(lastOp.polymarket_markets,
                                            lastOp.kalshi_markets, lastOp.overrides, now)]
    /\ UNCHANGED <<now, events, bindings, orderbook, signals, nextSignalId, positions,
                   snapshots, pcSignal, sess, cycles, sched, netVars>>

\* resolve_markets(kalshi_markets, polymarket_markets, overrides=overrides):
\* the same call with the two listings swapped
ResolveSwapped ==
    /\ lastOp.op = "resolve_markets"
    /\ lastOp' = [op |-> "resolve_swapped",
                  polymarket_markets |-> lastOp.polymarket_markets,
                  kalshi_markets |-> lastOp.kalshi_markets,
                  overrides |-> lastOp.overrides,
                  pairs |-> lastOp.pairs,
                  swapped |-> resolve_markets(lastOp.kalshi_markets,
                                              lastOp.polymarket_markets, lastOp.overrides, now)]
    /\ UNCHANGED <<now, events, bindings, orderbook, signals, nextSignalId, positions,
                   snapshots, pcSignal, sess, cycles, sched, netVars>>

NextResolve ==
    \/ Resolve
    \/ ResolveSwapped

SpecResolve == InitResolve /\ [][NextResolve]_vars

\* the listed market of an id
MarketOf(markets, market_id) ==
    CHOOSE market \in Elements(markets) : market.venue_market_id = market_id

\* C21: every pair resolve_markets returns has the status and the confidence
\* of the override row of its two ids when there is one; without one it is
\* REVIEW when either market is not a binary winner market, when home and
\* away are swapped between the two, or when either start time is unknown;
\* otherwise AUTO from a total score of 0.86, REVIEW from 0.80 and REJECTED
\* below
C21_StatusFollowsOverrideThenGuardsThenScore ==
    lastOp.op = "resolve_markets" =>
        \A i \in 1..Len(lastOp.pairs) :
            LET pair == lastOp.pairs[i]
                a == MarketOf(lastOp.polymarket_markets, pair.poly)
                b == MarketOf(lastOp.kalshi_markets, pair.kalshi)
                key == <<pair.poly, pair.kalshi>>
                total == total_score3(a, b)
            IN  IF key \in DOMAIN lastOp.overrides
                THEN /\ pair.status = lastOp.overrides[key].status
                     /\ pair.confidence = lastOp.overrides[key].confidence
                ELSE IF \/ a.market_type # "WINNER_BINARY"
                        \/ b.market_type # "WINNER_BINARY"
                        \/ team_similarity(a, b).flipped
                        \/ a.start_time_utc = NoPrice
                        \/ b.start_time_utc = NoPrice
                THEN pair.status = "REVIEW"
                ELSE /\ total >= 25800 => pair.status = "AUTO"
                     /\ (total >= 24000 /\ total < 25800) => pair.status = "REVIEW"
                     /\ total < 24000 => pair.status = "REJECTED"

\* a run that returned two pairs: an overridden one of a three-way market,
\* with the row's status AUTO and confidence 0.9, and one without override
\* whose sides are swapped, held for review although it scores 1
C21_Witness ==
    /\ lastOp.op = "resolve_markets"
    /\ Len(lastOp.pairs) = 2
    /\ <<lastOp.pairs[1].poly, lastOp.pairs[1].kalshi>> \in DOMAIN lastOp.overrides
    /\ lastOp.polymarket_markets[1].market_type = "WINNER_3WAY"
    /\ lastOp.pairs[1].status = "AUTO"
    /\ lastOp.pairs[1].confidence = 9000
    /\ lastOp.pairs[2].orientation_flipped
    /\ lastOp.pairs[2].score3 = 30000
    /\ lastOp.pairs[2].status = "REVIEW"

\* runs that returned a pair in each band of the score: AUTO, REVIEW for a
\* score between 0.80 and 0.86, and REJECTED
C21_WitnessBands ==
    /\ lastOp.op = "resolve_markets"
    /\ Len(lastOp.pairs) = 2
    /\ lastOp.overrides = NoOverrides
    /\ lastOp.pairs[1].status = "REJECTED"
    /\ lastOp.pairs[2].status = "REVIEW"
    /\ ~lastOp.pairs[2].orientation_flipped
    /\ lastOp.pairs[2].score3 = 25000

\* the pairs of a run that have the venue-A market of an id
PairsOf(pairs, market_id) == {i \in 1..Len(pairs) : pairs[i].poly = market_id}

\* a venue-B market a venue-A market may be paired with, as C22 states it
Eligible(a, b) ==
    /\ a.sport \in {"NBA", "SOCCER"}
    /\ a.sport = b.sport
    /\ a.sport = "NBA" => (a.competition = "NBA" /\ b.competition = "NBA")
    /\ a.sport = "SOCCER" =>
          /\ a.competition = b.competition
          /\ a.competition \in SUPPORTED_SOCCER_COMPETITIONS
    /\ (a.start_time_utc # NoPrice /\ b.start_time_utc # NoPrice) =>
          AbsDiff(a.start_time_utc, b.start_time_utc)
              <= (IF a.sport = "NBA" THEN 72 ELSE 144)

\* C22: the two markets of a pair have the same sport, the same competition
\* when they are soccer markets, and start times that are unknown or at most
\* 6 hours (NBA) or 12 hours (soccer) apart; a venue-A market is in at most
\* one pair, its partner scores at least as high as every other market it
\* may be paired with, and a venue-A market that may be paired with none is
\* in no pair
C22_PairsRespectFiltersAndTakeTheBest ==
    lastOp.op = "resolve_markets" =>
        /\ \A i \in 1..Len(lastOp.pairs) :
              LET a == MarketOf(lastOp.polymarket_markets, lastOp.pairs[i].poly)
                  b == MarketOf(lastOp.kalshi_markets, lastOp.pairs[i].kalshi)
              IN  /\ a.sport = b.sport
                  /\ a.sport = "SOCCER" => a.competition = b.competition
                  /\ (a.start_time_utc # NoPrice /\ b.start_time_utc # NoPrice) =>
                        /\ a.sport = "NBA" =>
                              AbsDiff(a.start_time_utc, b.start_time_utc) <= 72
                        /\ a.sport = "SOCCER" =>
                              AbsDiff(a.start_time_utc, b.start_time_utc) <= 144
                  /\ Eligible(a, b)
                  /\ \A other \in Elements(lastOp.kalshi_markets) :
                        Eligible(a, other) => total_score3(a, b) >= total_score3(a, other)
        /\ \A a \in Elements(lastOp.polymarket_markets) :
              /\ Cardinality(PairsOf(lastOp.pairs, a.venue_market_id)) <= 1
              /\ (\A b \in Elements(lastOp.kalshi_markets) : ~Eligible(a, b))
                    => PairsOf(lastOp.pairs, a.venue_market_id) = {}

\* a run on two venue-A and two venue-B markets: the first, an NBA game, has
\* one listing of the same game 8 hours away and one 4 hours 40 minutes away
\* and is paired with the second; the other, a soccer game, has no candidate
\* and is in no pair
C22_Witness ==
    /\ lastOp.op = "resolve_markets"
    /\ Len(lastOp.polymarket_markets) = 2
    /\ Len(lastOp.kalshi_markets) = 2
    /\ lastOp.polymarket_markets[1].sport = "NBA"
    /\ lastOp.polymarket_markets[1].start_time_utc = 196
    /\ lastOp.kalshi_markets[1].sport = "NBA"
    /\ lastOp.kalshi_markets[1].competition = "NBA"
    /\ lastOp.kalshi_markets[1].start_time_utc = 100
    /\ lastOp.kalshi_markets[2].start_time_utc = 140
    /\ lastOp.polymarket_markets[2].sport = "SOCCER"
    /\ lastOp.polymarket_markets[2].competition = "UCL"
    /\ Len(lastOp.pairs) = 1
    /\ lastOp.pairs[1].poly = "a1"
    /\ lastOp.pairs[1].kalshi = "b2"

\* a run in which the venue-A market had two candidates and was paired with
\* the second, which scores higher than the first
C22_WitnessBest ==
    /\ lastOp.op = "resolve_markets"
    /\ Len(lastOp.pairs) = 1
    /\ Len(lastOp.kalshi_markets) = 2
    /\ lastOp.pairs[1].kalshi = "b2"
    /\ Eligible(lastOp.polymarket_markets[1], lastOp.kalshi_markets[1])
    /\ total_score3(lastOp.polymarket_markets[1], lastOp.kalshi_markets[2])
           > total_score3(lastOp.polymarket_markets[1], lastOp.kalshi_markets[1])

\* the pairings of a run as unordered pairs of market ids, each with its
\* event id, status and confidence
Pairings(pairs) ==
    {[markets |-> {pairs[i].poly, pairs[i].kalshi}, event_id |-> pairs[i].event_id,
      status |-> pairs[i].status, confidence |-> pairs[i].confidence] :
        i \in 1..Len(pairs)}

\* C23: resolving with the two listings swapped yields the same pairings, each
\* with the same event id, status and confidence
C23_SwappedListingsGiveSamePairings ==
    lastOp.op = "resolve_swapped" => Pairings(lastOp.swapped) = Pairings(lastOp.pairs)

----------------------------------------------------------------------------
(* The order book under its ingestion paths, from the venues' answers.       *)
(* Prices are in hundredths: 1.0 is 100, 57 cents as a venue sends them 5700 *)

\* PolymarketClobClient.fetch_top_of_book: the first bid and the first ask of
\* a /book answer as the CLOB gives them; NoRow for a failed request or an
\* answer without bids or asks
fetch_top_of_book(payload) ==
    IF payload = NoRow THEN NoRow
    ELSE Quoted(payload.bid, payload.ask, payload.bid_size, payload.ask_size)

\* PolyrouterClient._normalize_orderbook_row: both prices coerced, no top
\* when either is rejected
normalize_orderbook_row(row) ==
    IF row = NoRow \/ coerce_price(row.bid) = NoPrice \/ coerce_price(row.ask) = NoPrice
    THEN NoRow
    ELSE Quoted(coerce_price(row.bid), coerce_price(row.ask), row.bid_size, row.ask_size)

\* what a venue may answer: nothing, probabilities, cents, and prices that
\* are neither (1.5 and 150)
VenueAnswers ==
    {NoRow, Priced(42, 43, 100, 100), Priced(5700, 5800, 100, 100),
     Priced(150, 160, 50, 50), Priced(15000, 15100, 50, 50)}

\* _refresh_poly_books, one market id: the fetched top is upserted
IngestClob(market_id, payload) ==
    /\ fetch_top_of_book(payload) # NoRow
    /\ RefreshPolyBook(market_id, fetch_top_of_book(payload))

\* _refresh_polyrouter_books, one row of the router's answer
IngestRouter(venue, market_id, row) ==
    /\ normalize_orderbook_row(row) # NoRow
    /\ RefreshPolyrouterBook(venue, market_id, "YES", normalize_orderbook_row(row))

\* _seed_orderbook_from_market of one listed market
IngestListing(venue, market_id, raw) ==
    /\ raw # NoRow
    /\ BookSeed(venue, market_id, raw)

NextIngest ==
    \/ \E venue \in Venue : \E m \in {"p1", "k1"} \cap MarketsOf(venue) :
          \E raw \in VenueAnswers : IngestListing(venue, m, raw)
    \/ \E payload \in VenueAnswers : IngestClob("p1", payload)
    \/ \E venue \in Venue : \E m \in {"p1", "k1"} \cap MarketsOf(venue) :
          \E row \in VenueAnswers : IngestRouter(venue, m, row)

SpecIngest == Init /\ [][NextIngest]_vars

\* C25: every row of the order book has best_bid and best_ask in [0, 1],
\* whichever path wrote it
C25_StoredPricesInUnitInterval ==
    \A key \in BookKeys :
        orderbook[key] # NoRow =>
            /\ 0 <= orderbook[key].best_bid /\ orderbook[key].best_bid <= 100
            /\ 0 <= orderbook[key].best_ask /\ orderbook[key].best_ask <= 100

----------------------------------------------------------------------------
(* The paper portfolio as functions of the store: auto_close_started_events, *)
(* mark_to_market, simulate_signal and close_position applied to a store     *)
(* that holds positions opened earlier, under moving quotes and a running    *)
(* clock.  Sizes are in ten-thousandths of a contract                        *)

PaperIds == {1, 2, 3}

\* a position as simulate_signal stores it, bought on venue A and sold on
\* venue B at 0.41 and 0.49
StoredPosition(event_id, size, status, realized_pnl) ==
    [canonical_event_id |-> event_id,
     signal_id |-> IF event_id = "e1" THEN 1 ELSE 3,
     outcome |-> "YES",
     buy_venue |-> "POLY",
     sell_venue |-> "KALSHI",
     buy_market_id |-> IF event_id = "e1" THEN "p1" ELSE "p2",
     sell_market_id |-> "k1",
     size |-> size,
     entry_buy_price |-> 41,
     entry_sell_price |-> 49,
     fill_ratio |-> <<size, size>>,
     status |-> status,
     realized_pnl |-> realized_pnl,
     unrealized_pnl |-> 0,
     closed_at |-> IF status = "CLOSED" THEN 0 ELSE NoPrice,
     fills |-> <<[leg |-> "BUY", limit_price |-> 41, fill_price |-> 41,
                  size |-> size, filled_size |-> size, probability |-> 100],
                 [leg |-> "SELL", limit_price |-> 49, fill_price |-> 49,
                  size |-> size, filled_size |-> size, probability |-> 100]>>]

\* the positions in the store at the start: none, one open on the event that
\* starts at time 2, one open on the event that starts at time 3, one closed
\* by an earlier close request
StoredPositions ==
    {NoRow,
     StoredPosition("e1", 20000, "OPEN", 0),
     StoredPosition("e2", 30000, "OPEN", 0),
     StoredPosition("e1", 10000, "CLOSED", 70000)}

InitPaper ==
    /\ now = 0
    /\ events = [e \in EventIds |->
                    IF e \in {"e1", "e2"} THEN [start_time_utc |-> StartOf(e)] ELSE NoRow]
    /\ bindings = upsert_binding(upsert_binding([k \in BindingKeys |-> NoRow],
                                                ResolvedPair("p1", "k1", "AUTO"), "POLY"),
                                 ResolvedPair("p1", "k1", "AUTO"), "KALSHI")
    /\ orderbook = [k \in BookKeys |-> NoRow]
    /\ signals = [k \in SignalKeys |-> NoRow]
    /\ nextSignalId = 1
    /\ \E first \in StoredPositions, second \in StoredPositions :
          positions = [p \in PaperIds |->
                          IF p = 1 THEN first ELSE IF p = 2 THEN second ELSE NoRow]
    /\ snapshots = <<>>
    /\ pcSignal = "sleep"
    /\ sess = CleanSession
    /\ cycles = 0
    /\ lastOp = NoOp
    /\ sched = NewScheduler
    /\ router = NewRouter(100)
    /\ connector = NewConnector("polyrouter", 3, 500)
    /\ hub = NewHub

\* what venue A lists for its market in a discovery cycle
PaperListings == {Priced(40, 41, 300, 250), Priced(42, 43, 300, 250)}

\* a discovery cycle's seeding of the two books from the listings, in one
\* transaction
PaperDiscovery(raw) ==
    /\ orderbook' = seed_orderbook_from_market(
                        seed_orderbook_from_market(orderbook, "POLY", "p1", raw),
                        "KALSHI", "k1", Priced(4900, 5000, 300, 250))
    /\ lastOp' = NoOp
    /\ UNCHANGED <<netVars, now, events, bindings, signals, nextSignalId, positions,
                   snapshots, pcSignal, sess, cycles, sched>>

\* refresh_signals and its commit
PaperRefresh ==
    /\ LET done == refresh_signals(signals, nextSignalId, events, bindings, orderbook)
       IN  /\ signals' = done.signals
           /\ nextSignalId' = done.next_id
    /\ UNCHANGED <<netVars, now, events, bindings, orderbook, positions, snapshots,
                   pcSignal, sess, cycles, lastOp, sched>>

\* auto_close_started_events(session) and the commit of its session
PaperAutoClose ==
    /\ positions' = auto_close_started_events(positions, events)
    /\ lastOp' = [op |-> "auto_close_started_events", before |-> positions, at |-> now]
    /\ UNCHANGED <<netVars, now, events, bindings, orderbook, signals, nextSignalId,
                   snapshots, pcSignal, sess, cycles, sched>>

\* mark_to_market(session) and the commit of its session
PaperMarkToMarket ==
    /\ Len(snapshots) < MaxSnapshots
    /\ positions' = mark_positions(positions, orderbook)
    /\ snapshots' = Append(snapshots, portfolio_snapshot(mark_positions(positions, orderbook)))
    /\ lastOp' = [op |-> "mark_to_market", before |-> positions, snapshots |-> snapshots]
    /\ UNCHANGED <<netVars, now, events, bindings, orderbook, signals, nextSignalId,
                   pcSignal, sess, cycles, sched>>

\* a position whose event's row says it has started at the time given
Started(position, at) ==
    /\ events[position.canonical_event_id] # NoRow
    /\ events[position.canonical_event_id].start_time_utc <= at

\* C26: when auto_close_started_events has run, no position whose event has
\* start_time_utc <= now is OPEN; a position it closed has realized_pnl =
\* (entry_sell_price - entry_buy_price) * size, unrealized_pnl 0, status
\* CLOSED and closed_at = now, and nothing else of it changed; the positions
\* whose event starts later, and those closed before, are as they were
C26_AutoCloseSettlesStartedPositions ==
    lastOp.op = "auto_close_started_events" =>
        \A p \in PaperIds :
            LET old == lastOp.before[p]
                new == positions[p]
            IN  IF old = NoRow THEN new = NoRow
                ELSE /\ Started(new, lastOp.at) => new.status = "CLOSED"
                     /\ (old.status = "OPEN" /\ new.status = "CLOSED") =>
                           new = [old EXCEPT
                                    !.realized_pnl = (old.entry_sell_price
                                                      - old.entry_buy_price) * old.size,
                                    !.unrealized_pnl = 0,
                                    !.status = "CLOSED",
                                    !.closed_at = lastOp.at]
                     /\ (~Started(old, lastOp.at) \/ old.status = "CLOSED") => new = old

\* a run at the time the first event starts: it closed the open position of
\* that event with the locked spread, and left the open position of the
\* event that starts later
C26_Witness ==
    /\ lastOp.op = "auto_close_started_events"
    /\ lastOp.at = 2
    /\ \E p, q \in PaperIds :
          /\ lastOp.before[p] # NoRow
          /\ lastOp.before[p].status = "OPEN"
          /\ positions[p].canonical_event_id = "e1"
          /\ positions[p].status = "CLOSED"
          /\ positions[p].realized_pnl = 160000
          /\ positions[p].closed_at = 2
          /\ positions[q] # NoRow
          /\ positions[q].canonical_event_id = "e2"
          /\ positions[q].status = "OPEN"

\* one generator shared by all the runs: its numbers go on where the run
\* before stopped
rng_random_shared(signal_id, target_size, n) ==
    ((cycles * 50 + signal_id * 7 + (target_size \div 10000) * 7 + n * 87) % 100) + 1

\* random.Random(f"{signal.id}:{target_size}"): the n-th number the generator
\* seeded with the signal id and the clamped size returns, in percent of the
\* unit interval.  The generator is created anew in every run, so the number
\* is a fixed function of the seed and of n
rng_random(signal_id, target_size, n) ==
    ((signal_id * 7 + (target_size \div 10000) * 7 + n * 87) % 100) + 1

\* whether the two legs of a run hit, rng.random() <= prob: the buy leg
\* consumes a number of the generator only when it neither returns early nor
\* crosses, and the sell leg takes the next one
seeded_hits(signal, target_size, buy_top, sell_top) ==
    LET buy_prob == simulate_limit_fill("BUY", signal.buy_price, buy_top.best_bid,
                        buy_top.best_ask, buy_top.ask_size, target_size, TRUE).probability
        sell_prob == simulate_limit_fill("SELL", signal.sell_price, sell_top.best_bid,
                        sell_top.best_ask, sell_top.bid_size, target_size, TRUE).probability
        buy_draws == IF buy_prob \in {0, 100} THEN 0 ELSE 1
    IN  <<rng_random(signal.id, target_size, 1) <= buy_prob,
          rng_random(signal.id, target_size, buy_draws + 1) <= sell_prob>>

\* simulate_signal with the hits of its two legs drawn from the generator it
\* seeds
simulate_signal_seeded(tbl, book, signal_id, requested_size) ==
    LET found == SignalById(tbl, signal_id)
    IN  IF found = NoRow
        THEN simulate_signal(tbl, book, signal_id, requested_size, FALSE, FALSE)
        ELSE
        LET signal == found.row
            key == found.key
            wanted == IF requested_size # NoSize THEN requested_size
                      ELSE signal.size_suggested
            target_size == Max(0, Min(wanted, signal.size_suggested))
            buy_top == get_top(book, key[3], signal.buy_market_id, key[2])
            sell_top == get_top(book, key[4], signal.sell_market_id, key[2])
        IN  IF buy_top = NoRow \/ sell_top = NoRow
            THEN simulate_signal(tbl, book, signal_id, requested_size, FALSE, FALSE)
            ELSE LET hits == seeded_hits(signal, target_size, buy_top, sell_top)
                 IN  simulate_signal(tbl, book, signal_id, requested_size,
                                     hits[1], hits[2])

\* an unknown position id answered like an already closed position
close_position_by_id_silently(pos, book, position_id) ==
    IF position_id \notin DOMAIN pos \/ pos[position_id] = NoRow
    THEN [positions |-> pos]
    ELSE [positions |-> close_position(pos, book, position_id)]

\* PaperTradingSimulator.close_position: the positions it leaves, and the
\* ValueError it raises for an id that no position has
close_position_by_id(pos, book, position_id) ==
    IF position_id \notin DOMAIN pos \/ pos[position_id] = NoRow
    THEN [error |-> "position not found", positions |-> pos]
    ELSE [positions |-> close_position(pos, book, position_id)]

\* the ids and sizes of the simulate requests: the two signals a refresh can
\* have written and an id no signal has; no size, a negative size, one
\* contract, and more than any suggested size
PaperSignalIds == {1, 2, 9}
PaperSizes == {NoSize, 0 - 20000, 10000, 90000000}

\* what the two venues list for their markets in the cycles between the
\* requests: the quotes of venue A move up, cross those of a signal, widen,
\* and those of venue B move down
SimListings ==
    {<<Priced(40, 41, 300, 250), Priced(4900, 5000, 300, 250)>>,
     <<Priced(41, 42, 300, 250), Priced(4800, 4900, 300, 250)>>,
     <<Priced(42, 43, 300, 250), Priced(4900, 5000, 300, 250)>>,
     <<Priced(40, 43, 300, 250), Priced(4900, 5000, 300, 250)>>}

\* a discovery cycle's seeding of the two books from the listings, in one
\* transaction
SimDiscovery(listed) ==
    /\ orderbook' = seed_orderbook_from_market(
                        seed_orderbook_from_market(orderbook, "POLY", "p1", listed[1]),
                        "KALSHI", "k1", listed[2])
    /\ lastOp' = NoOp
    /\ UNCHANGED <<netVars, now, events, bindings, signals, nextSignalId, positions,
                   snapshots, pcSignal, sess, cycles, sched>>

\* the signal row, the clamped size and the two order-book rows a run reads
RunInputs(signal_id, requested_size) ==
    LET found == SignalById(signals, signal_id)
    IN  IF found = NoRow
        THEN [signal_id |-> signal_id, signal |-> NoRow]
        ELSE [signal_id |-> signal_id,
              signal |-> found.row,
              target_size |-> Max(0, Min(IF requested_size # NoSize THEN requested_size
                                         ELSE found.row.size_suggested,
                                         found.row.size_suggested)),
              buy_top |-> get_top(orderbook, found.key[3], found.row.buy_market_id,
                                  found.key[2]),
              sell_top |-> get_top(orderbook, found.key[4], found.row.sell_market_id,
                                   found.key[2])]

\* the run before this one, when nothing but refreshes and the clock came
\* between the two
PreviousRun ==
    IF lastOp.op = "simulate_signal"
    THEN [inputs |-> lastOp.inputs, result |-> lastOp.result]
    ELSE NoOp

\* POST /paper/simulate and the commit of its session: the position is added
\* with its two fills, or the ValueError is answered with 400 and the session
\* is closed without a write
PaperSimulate(signal_id, requested_size) ==
    LET result == simulate_signal_seeded(signals, orderbook, signal_id, requested_size)
        free == {p \in PaperIds : positions[p] = NoRow}
    IN  /\ cycles < MaxRequests
        /\ free # {}
        /\ cycles' = cycles + 1
        /\ positions' = IF "error" \in DOMAIN result THEN positions
                        ELSE [positions EXCEPT ![CHOOSE p \in free :
                                                   \A q \in free : p <= q] = result]
        /\ lastOp' = [op |-> "simulate_signal",
                      requested_size |-> requested_size,
                      inputs |-> RunInputs(signal_id, requested_size),
                      result |-> result,
                      before |-> positions,
                      prev |-> PreviousRun]
        /\ UNCHANGED <<netVars, now, events, bindings, orderbook, signals, nextSignalId,
                       snapshots, pcSignal, sess, sched>>

\* the ids of the close requests: the three ids a position can have and one
\* that none has
PaperCloseIds == PaperIds \cup {7}

\* POST /paper/positions/{id}/close and the commit of its session, or the 404
\* that answers the ValueError
PaperClose(position_id) ==
    LET result == close_position_by_id(positions, orderbook, position_id)
    IN  /\ cycles < MaxRequests
        /\ cycles' = cycles + 1
        /\ positions' = result.positions
        /\ lastOp' = [op |-> "close_position", position_id |-> position_id,
                      error |-> "error" \in DOMAIN result, before |-> positions,
                      at |-> now]
        /\ UNCHANGED <<netVars, now, events, bindings, orderbook, signals, nextSignalId,
                       snapshots, pcSignal, sess, sched>>

\* the fills of the two legs of the run whose inputs are given
BuyFill(inputs) ==
    simulate_limit_fill("BUY", inputs.signal.buy_price, inputs.buy_top.best_bid,
        inputs.buy_top.best_ask, inputs.buy_top.ask_size, inputs.target_size,
        seeded_hits(inputs.signal, inputs.target_size, inputs.buy_top, inputs.sell_top)[1])

SellFill(inputs) ==
    simulate_limit_fill("SELL", inputs.signal.sell_price, inputs.sell_top.best_bid,
        inputs.sell_top.best_ask, inputs.sell_top.bid_size, inputs.target_size,
        seeded_hits(inputs.signal, inputs.target_size, inputs.buy_top, inputs.sell_top)[2])

\* the four cases in which a run must fail
SignalMissing(inputs) == inputs.signal = NoRow

SizeNotPositive(inputs) == ~SignalMissing(inputs) /\ inputs.target_size <= 0

BookMissing(inputs) ==
    /\ ~SignalMissing(inputs)
    /\ inputs.buy_top = NoRow \/ inputs.sell_top = NoRow

NothingFilled(inputs) ==
    /\ ~SignalMissing(inputs) /\ ~BookMissing(inputs)
    /\ Min(BuyFill(inputs).filled_size, SellFill(inputs).filled_size) <= 0

\* C28: simulate_signal fails with an invalid-argument error, and adds no
\* position and no fill, when the signal does not exist, when the clamped
\* size is not positive, when either order-book row is missing, or when the
\* smaller of the two leg fills is zero; close_position fails the same way
\* for an id that no position has, and changes nothing
C28_FailuresRaiseAndWriteNothing ==
    /\ (/\ lastOp.op = "simulate_signal"
        /\ \/ SignalMissing(lastOp.inputs) \/ SizeNotPositive(lastOp.inputs)
           \/ BookMissing(lastOp.inputs) \/ NothingFilled(lastOp.inputs))
       => /\ "error" \in DOMAIN lastOp.result
          /\ positions = lastOp.before
    /\ (/\ lastOp.op = "close_position"
        /\ \/ lastOp.position_id \notin PaperIds
           \/ lastOp.before[lastOp.position_id] = NoRow)
       => /\ lastOp.error
          /\ positions = lastOp.before

\* a run on a signal whose limit joins the bid, both books present, that
\* misses: nothing is filled
C28_Witness ==
    /\ lastOp.op = "simulate_signal"
    /\ NothingFilled(lastOp.inputs)
    /\ ~SizeNotPositive(lastOp.inputs)
    /\ lastOp.result = [error |-> "simulated fills were zero"]
    /\ \E p \in PaperIds : positions[p] # NoRow

\* the other failures: an id no signal has, a negative size, a signal on the
\* other outcome, whose books nobody wrote, and a close of an id no position
\* has
C28_WitnessSignalMissing ==
    /\ lastOp.op = "simulate_signal"
    /\ SignalMissing(lastOp.inputs)
    /\ lastOp.result = [error |-> "signal not found"]

C28_WitnessSize ==
    /\ lastOp.op = "simulate_signal"
    /\ SizeNotPositive(lastOp.inputs)
    /\ ~BookMissing(lastOp.inputs)
    /\ lastOp.result = [error |-> "size must be positive"]

C28_WitnessBook ==
    /\ lastOp.op = "simulate_signal"
    /\ BookMissing(lastOp.inputs)
    /\ ~SizeNotPositive(lastOp.inputs)
    /\ lastOp.result = [error |-> "orderbook unavailable for simulation"]

C28_WitnessClose ==
    /\ lastOp.op = "close_position"
    /\ lastOp.position_id \in PaperIds
    /\ lastOp.before[lastOp.position_id] = NoRow
    /\ lastOp.error
    /\ \E p \in PaperIds : positions[p] # NoRow /\ positions[p].status = "OPEN"

\* the size a run aims at: the requested size, or the suggested one when
\* none is given, clamped to 0 .. size_suggested
ClampedSize(requested_size, size_suggested) ==
    LET wanted == IF requested_size = NoSize THEN size_suggested ELSE requested_size
    IN  IF wanted < 0 THEN 0
        ELSE IF wanted > size_suggested THEN size_suggested
        ELSE wanted

\* the id simulate_signal's position gets in a store
NewPositionId(before) ==
    CHOOSE p \in PaperIds : before[p] = NoRow /\ \A q \in PaperIds : before[q] = NoRow => p <= q

\* C29: a position created by simulate_signal has size = min(buy leg filled,
\* sell leg filled) with 0 < size <= target, where target is the requested
\* size (the suggested one when none is given) clamped to 0 .. size_suggested;
\* its fill_ratio is size / target and lies in (0, 1]; and exactly two fills,
\* one BUY and one SELL, are recorded for it
C29_CreatedPositionSizeRatioAndTwoFills ==
    (lastOp.op = "simulate_signal" /\ "error" \notin DOMAIN lastOp.result) =>
        LET created == positions[NewPositionId(lastOp.before)]
            target == ClampedSize(lastOp.requested_size, lastOp.inputs.signal.size_suggested)
            buy_filled == BuyFill(lastOp.inputs).filled_size
            sell_filled == SellFill(lastOp.inputs).filled_size
        IN  /\ created # NoRow
            /\ \A p \in PaperIds \ {NewPositionId(lastOp.before)} :
                   positions[p] = lastOp.before[p]
            /\ lastOp.inputs.target_size = target
            /\ created.size = IF buy_filled <= sell_filled THEN buy_filled ELSE sell_filled
            /\ 0 < created.size /\ created.size <= target
            /\ created.fill_ratio = <<created.size, target>>
            /\ 0 < created.fill_ratio[1] /\ created.fill_ratio[1] <= created.fill_ratio[2]
            /\ Len(created.fills) = 2
            /\ created.fills[1].leg = "BUY" /\ created.fills[2].leg = "SELL"
            /\ \A i \in 1..2 : /\ created.fills[i].size = target
                                /\ created.fills[i].filled_size = created.size

\* a run without a size on a signal whose two limits join the quotes: both
\* legs draw and hit, the buy leg fills 60% of the 250 displayed, less than
\* the sell leg and less than the suggested size
C29_Witness ==
    /\ lastOp.op = "simulate_signal" /\ "error" \notin DOMAIN lastOp.result
    /\ lastOp.requested_size = NoSize
    /\ lastOp.result.fills[1].probability = 60
    /\ lastOp.result.fills[2].probability = 60
    /\ BuyFill(lastOp.inputs).filled_size < SellFill(lastOp.inputs).filled_size
    /\ positions[NewPositionId(lastOp.before)].size = 1500000
    /\ positions[NewPositionId(lastOp.before)].fill_ratio = <<1500000, 1666666>>

\* a run that asks for more than the suggested size and crosses on both
\* legs: the size is clamped and filled whole
C29_WitnessClamped ==
    /\ lastOp.op = "simulate_signal" /\ "error" \notin DOMAIN lastOp.result
    /\ lastOp.requested_size > lastOp.inputs.signal.size_suggested
    /\ positions[NewPositionId(lastOp.before)].size = lastOp.inputs.signal.size_suggested
    /\ positions[NewPositionId(lastOp.before)].fill_ratio[1]
          = positions[NewPositionId(lastOp.before)].fill_ratio[2]

\* a run for one contract
C29_WitnessSmall ==
    /\ lastOp.op = "simulate_signal" /\ "error" \notin DOMAIN lastOp.result
    /\ lastOp.requested_size = 10000
    /\ positions[NewPositionId(lastOp.before)].size = 10000

\* what a run produced: the fill prices, filled sizes and probabilities of
\* its two legs and the position's size, or its error
Produced(result) ==
    IF "error" \in DOMAIN result THEN result
    ELSE [size |-> result.size,
          fill_prices |-> <<result.fills[1].fill_price, result.fills[2].fill_price>>,
          filled_sizes |-> <<result.fills[1].filled_size, result.fills[2].filled_size>>,
          probabilities |-> <<result.fills[1].probability, result.fills[2].probability>>]

\* two runs on the same signal id with the same clamped size that read the
\* same two order-book rows
SameSeedAndBooks(first, second) ==
    /\ first.signal # NoRow /\ second.signal # NoRow
    /\ first.signal_id = second.signal_id
    /\ first.target_size = second.target_size
    /\ first.buy_top = second.buy_top
    /\ first.sell_top = second.sell_top

\* the limit prices of the signal row are those of the other run too
SameLimits(first, second) ==
    /\ first.signal.buy_price = second.signal.buy_price
    /\ first.signal.sell_price = second.signal.sell_price

C30_WitnessLimitsMoved ==
    /\ lastOp.op = "simulate_signal"
    /\ lastOp.prev # NoOp
    /\ SameSeedAndBooks(lastOp.prev.inputs, lastOp.inputs)
    /\ ~SameLimits(lastOp.prev.inputs, lastOp.inputs)
    /\ "error" \notin DOMAIN lastOp.result
    /\ "error" \notin DOMAIN lastOp.prev.result
    /\ Produced(lastOp.result).fill_prices # Produced(lastOp.prev.result).fill_prices

\* what a position adds to the realized and to the unrealized total
RealizedOf(position) ==
    IF position # NoRow /\ position.status = "CLOSED" THEN position.realized_pnl ELSE 0

UnrealizedOf(position) ==
    IF position # NoRow /\ position.status = "OPEN" THEN position.unrealized_pnl ELSE 0

\* a position one of whose two quotes is not in the order book
LacksQuote(position) ==
    \/ orderbook[<<position.buy_venue, position.buy_market_id, position.outcome>>] = NoRow
    \/ orderbook[<<position.sell_venue, position.sell_market_id, position.outcome>>] = NoRow

\* C27: a mark_to_market call appends exactly one snapshot, whose
\* realized_pnl is the sum of realized_pnl over the CLOSED positions, whose
\* unrealized_pnl is the sum of unrealized_pnl over the OPEN ones and whose
\* equity is the sum of the two; an OPEN position lacking a quote has
\* unrealized_pnl 0, and no CLOSED position is changed
C27_MarkToMarketAppendsOneConsistentSnapshot ==
    lastOp.op = "mark_to_market" =>
        LET snapshot == snapshots[Len(snapshots)]
        IN  /\ Len(snapshots) = Len(lastOp.snapshots) + 1
            /\ SubSeq(snapshots, 1, Len(lastOp.snapshots)) = lastOp.snapshots
            /\ snapshot.realized_pnl = RealizedOf(positions[1]) + RealizedOf(positions[2])
                                          + RealizedOf(positions[3])
            /\ snapshot.unrealized_pnl = UnrealizedOf(positions[1]) + UnrealizedOf(positions[2])
                                            + UnrealizedOf(positions[3])
            /\ snapshot.equity = snapshot.realized_pnl + snapshot.unrealized_pnl
            /\ \A p \in PaperIds :
                  /\ (lastOp.before[p] = NoRow) <=> (positions[p] = NoRow)
                  /\ lastOp.before[p] # NoRow =>
                        /\ positions[p].status = lastOp.before[p].status
                        /\ lastOp.before[p].status = "CLOSED" =>
                              positions[p] = lastOp.before[p]
                        /\ (positions[p].status = "OPEN" /\ LacksQuote(positions[p])) =>
                              positions[p].unrealized_pnl = 0

\* a call on a store with a closed position and an open one whose two quotes
\* are in the book: the snapshot has the realized 7, the unrealized -4 and
\* the equity 3
C27_Witness ==
    /\ lastOp.op = "mark_to_market"
    /\ \E p, q \in PaperIds :
          /\ positions[p] # NoRow /\ positions[p].status = "CLOSED"
          /\ positions[q] # NoRow /\ positions[q].status = "OPEN"
          /\ ~LacksQuote(positions[q])
          /\ positions[q].unrealized_pnl = 0 - 40000
    /\ snapshots[Len(snapshots)].realized_pnl = 70000
    /\ snapshots[Len(snapshots)].unrealized_pnl = 0 - 40000
    /\ snapshots[Len(snapshots)].equity = 30000

\* a call on a store with two open positions, one with both quotes and one
\* whose venue-A market has no quote
C27_WitnessNoQuote ==
    /\ lastOp.op = "mark_to_market"
    /\ \E p, q \in PaperIds :
          /\ positions[p] # NoRow /\ positions[p].status = "OPEN"
          /\ LacksQuote(positions[p])
          /\ positions[q] # NoRow /\ positions[q].status = "OPEN"
          /\ positions[q].unrealized_pnl # 0
    /\ snapshots[Len(snapshots)].unrealized_pnl # 0

NextPaper ==
    \/ \E raw \in PaperListings : PaperDiscovery(raw)
    \/ Tick
    \/ PaperRefresh
    \/ PaperAutoClose
    \/ PaperMarkToMarket

SpecPaper == InitPaper /\ [][NextPaper]_vars

\* the simulate and close requests on a store that starts with one open
\* position, between discovery cycles and signal refreshes
\* (cycles counts the requests answered, up to MaxRequests)
InitSim ==
    /\ now = 0
    /\ events = [e \in EventIds |->
                    IF e \in {"e1", "e2"} THEN [start_time_utc |-> StartOf(e)] ELSE NoRow]
    /\ bindings = upsert_binding(upsert_binding([k \in BindingKeys |-> NoRow],
                                                ResolvedPair("p1", "k1", "AUTO"), "POLY"),
                                 ResolvedPair("p1", "k1", "AUTO"), "KALSHI")
    /\ orderbook = [k \in BookKeys |-> NoRow]
    /\ signals = [k \in SignalKeys |-> NoRow]
    /\ nextSignalId = 1
    /\ positions = [p \in PaperIds |->
                       IF p = 1 THEN StoredPosition("e1", 20000, "OPEN", 0) ELSE NoRow]
    /\ snapshots = <<>>
    /\ pcSignal = "sleep"
    /\ sess = CleanSession
    /\ cycles = 0
    /\ lastOp = NoOp
    /\ sched = NewScheduler
    /\ router = NewRouter(100)
    /\ connector = NewConnector("polyrouter", 3, 500)
    /\ hub = NewHub

NextSim ==
    \/ \E listed \in SimListings : SimDiscovery(listed)
    \/ PaperRefresh
    \/ \E signal_id \in PaperSignalIds, requested_size \in PaperSizes :
          PaperSimulate(signal_id, requested_size)
    \/ \E position_id \in PaperCloseIds : PaperClose(position_id)

SpecSim == InitSim /\ [][NextSim]_vars

----------------------------------------------------------------------------
(* connectors/polyrouter.py: fetch_orderbooks                              *)

\* the lookup ids a caller passes, one of them with a leading blank, the
\* empty string, and the native ids of the venue
LookupIds == {"lookup-1", "lookup-2", "lookup-3"}
RequestedIds == LookupIds \cup {" lookup-1", ""}

\* str(market_id).strip()
strip_id(market_id) == IF market_id = " lookup-1" THEN "lookup-1" ELSE market_id

\* list(dict.fromkeys([...])) over the stripped, non-empty ids: the first
\* occurrence of each id, in order
RECURSIVE dedupe(_, _)
dedupe(market_ids, kept) ==
    IF market_ids = <<>> THEN kept
    ELSE LET id == strip_id(Head(market_ids))
         IN  IF id = "" \/ \E i \in 1..Len(kept) : kept[i] = id
             THEN dedupe(Tail(market_ids), kept)
             ELSE dedupe(Tail(market_ids), Append(kept, id))

\* max(1, settings.polyrouter_orderbook_batch_size)
batch_size_of(setting) == Max(1, setting)

\* deduped_ids[index : index + batch_size]
batch_at(deduped_ids, index, batch_size) ==
    SubSeq(deduped_ids, index + 1, Min(index + batch_size, Len(deduped_ids)))

\* _lookup_to_native as discovery left it: every lookup id cached, only the
\* first, none
CachedNative ==
    {[id \in LookupIds |-> IF id = "lookup-1" THEN "cond-1"
                           ELSE IF id = "lookup-2" THEN "cond-2" ELSE "cond-3"],
     [id \in LookupIds |-> IF id = "lookup-1" THEN "cond-1" ELSE ""],
     [id \in LookupIds |-> ""]}

\* a row of the router's answer for a lookup id: named by its lookup id only,
\* carrying a native id of its own, without prices
RowKinds == {"plain", "native", "unpriced"}

RouterRow(lookup_id, kind) ==
    [market_id |-> lookup_id,
     condition_id |-> IF kind = "native" THEN "cond-9" ELSE "",
     quote |-> IF kind = "unpriced" THEN NoRow
               ELSE IF lookup_id = "lookup-3" THEN Priced(4800, 5200, 95, 90)
               ELSE Priced(44, 46, 120, 130)]

\* _request_with_backoff returning None after its attempts
RequestFailed == [failed |-> TRUE]

\* what the router may answer to the request of a batch: no answer, no rows,
\* or one row of some kind per id asked
AnswersTo(batch) ==
    {RequestFailed, [rows |-> <<>>]}
    \cup {[rows |-> [i \in 1..Len(batch) |-> RouterRow(batch[i], kinds[i])]] :
            kinds \in [1..Len(batch) -> RowKinds]}

\* _extract_native_market_id for the polymarket platform: condition_id
\* before market_id
extract_native_market_id(row) ==
    IF row.condition_id # "" THEN row.condition_id ELSE row.market_id

\* PolyrouterClient._normalize_orderbook_row with the id of the row: the
\* cached native id replaces an id that is missing or is the lookup id
normalize_router_row(lookup_to_native, row) ==
    LET lookup_id == row.market_id
        own == extract_native_market_id(row)
        mapped_native == IF lookup_id # "" THEN lookup_to_native[lookup_id] ELSE ""
        native_market_id == IF mapped_native # "" /\ (own = "" \/ own = lookup_id)
                            THEN mapped_native
                            ELSE IF own = "" /\ lookup_id # "" THEN lookup_id
                            ELSE own
    IN  IF native_market_id = "" \/ normalize_orderbook_row(row.quote) = NoRow
        THEN NoRow
        ELSE [venue |-> "POLY", venue_market_id |-> native_market_id, outcome |-> "YES",
              top |-> normalize_orderbook_row(row.quote)]

\* the rows of an answer parsed and appended to tops
RECURSIVE append_parsed(_, _, _)
append_parsed(tops, lookup_to_native, rows) ==
    IF rows = <<>> THEN tops
    ELSE LET parsed == normalize_router_row(lookup_to_native, Head(rows))
         IN  append_parsed(IF parsed = NoRow THEN tops ELSE Append(tops, parsed),
                           lookup_to_native, Tail(rows))

\* a fetch that gives up at the first request that fails
next_index_giving_up(index, batch_size, answer, n) ==
    IF answer = RequestFailed THEN n ELSE index + batch_size

\* range(0, len(deduped_ids), batch_size): the index after a batch, whatever
\* its answer was
next_index(index, batch_size, answer, n) == index + batch_size

\* a client whose discovery has filled the id cache, before a call
NewFetcher(lookup_to_native) ==
    [pc |-> "idle", lookup_to_native |-> lookup_to_native, market_ids |-> <<>>,
     setting |-> 0, deduped_ids |-> <<>>, index |-> 0, calls |-> <<>>,
     answers |-> <<>>, tops |-> <<>>]

InitFetch ==
    /\ InitStore
    /\ router = NewRouter(100)
    /\ hub = NewHub
    /\ \E lookup_to_native \in CachedNative : connector = NewFetcher(lookup_to_native)

BatchSizeSettings == {0, 2}

\* fetch_orderbooks up to its first request: the ids de-duplicated, [] for
\* none
FetchStart(market_ids, setting) ==
    /\ connector.pc = "idle"
    /\ connector' = [connector EXCEPT
                       !.pc = IF dedupe(market_ids, <<>>) = <<>> THEN "returned"
                              ELSE "fetching",
                       !.market_ids = market_ids,
                       !.setting = setting,
                       !.deduped_ids = dedupe(market_ids, <<>>)]
    /\ UNCHANGED <<storeVars, router, hub>>

\* one turn of the loop: the request of the batch and the rows of its answer
FetchBatch(answer) ==
    LET batch_size == batch_size_of(connector.setting)
        batch == batch_at(connector.deduped_ids, connector.index, batch_size)
        index == next_index(connector.index, batch_size, answer,
                            Len(connector.deduped_ids))
    IN  /\ connector.pc = "fetching"
        /\ answer \in AnswersTo(batch)
        /\ connector' = [connector EXCEPT
                           !.calls = Append(@, batch),
                           !.answers = Append(@, answer),
                           !.tops = IF answer = RequestFailed THEN @
                                    ELSE append_parsed(@, connector.lookup_to_native,
                                                       answer.rows),
                           !.index = index,
                           !.pc = IF index >= Len(connector.deduped_ids) THEN "returned"
                                  ELSE "fetching"]
        /\ UNCHANGED <<storeVars, router, hub>>

\* the lists of ids a caller may pass
RECURSIVE ListsUpTo(_)
ListsUpTo(n) ==
    IF n = 0 THEN {<<>>}
    ELSE ListsUpTo(n - 1)
         \cup {Append(l, id) : l \in {k \in ListsUpTo(n - 1) : Len(k) = n - 1},
                               id \in RequestedIds}

NextFetch ==
    \/ \E market_ids \in ListsUpTo(MaxRequested), setting \in BatchSizeSettings :
          FetchStart(market_ids, setting)
    \/ \E answer \in AnswersTo(batch_at(connector.deduped_ids, connector.index,
                                        batch_size_of(connector.setting))) :
          FetchBatch(answer)

SpecFetch == InitFetch /\ [][NextFetch]_vars

\* the rows of the answers that came with rows, in the order received
RECURSIVE RowsOf(_)
RowsOf(answers) ==
    IF answers = <<>> THEN <<>>
    ELSE (IF Head(answers) = RequestFailed THEN <<>> ELSE Head(answers).rows)
         \o RowsOf(Tail(answers))

\* a row that names a market and quotes both prices
Parsable(row) ==
    /\ row.market_id # "" \/ row.condition_id # ""
    /\ row.quote # NoRow

\* the id a parsed row must carry: the cached native id in place of the
\* lookup id, the row's own native id when it has one, the lookup id when
\* nothing is cached for it
ExpectedMarketId(lookup_to_native, row) ==
    IF row.condition_id # "" THEN row.condition_id
    ELSE IF lookup_to_native[row.market_id] # "" THEN lookup_to_native[row.market_id]
    ELSE row.market_id

\* the place of the first occurrence of an id in the list passed
FirstPlace(market_ids, id) ==
    CHOOSE i \in 1..Len(market_ids) :
        /\ strip_id(market_ids[i]) = id
        /\ \A j \in 1..(i - 1) : strip_id(market_ids[j]) # id

\* C31: fetch_orderbooks de-duplicates the requested ids, issues
\* ceil(n / batch_size) requests each carrying at most batch_size ids in the
\* original order, returns one row per parsable book with the cached native
\* id in place of its lookup id, and skips a batch whose request fails or
\* returns no rows without giving up the remaining batches
C31_FetchBatchesDedupedIdsAndMapsNativeIds ==
    connector.pc = "returned" =>
        LET ids == connector.market_ids
            d == connector.deduped_ids
            n == Len(d)
            b == IF connector.setting < 1 THEN 1 ELSE connector.setting
            rows == SelectSeq(RowsOf(connector.answers), Parsable)
        IN  /\ {d[i] : i \in 1..n} = {strip_id(ids[i]) : i \in 1..Len(ids)} \ {""}
            /\ \A i, j \in 1..n :
                  i < j => d[i] # d[j] /\ FirstPlace(ids, d[i]) < FirstPlace(ids, d[j])
            /\ Len(connector.calls) = (n + b - 1) \div b
            /\ Len(connector.answers) = Len(connector.calls)
            /\ \A k \in 1..Len(connector.calls) :
                  /\ 1 <= Len(connector.calls[k]) /\ Len(connector.calls[k]) <= b
                  /\ \A i \in 1..Len(connector.calls[k]) :
                        connector.calls[k][i] = d[(k - 1) * b + i]
            /\ Len(connector.tops) = Len(rows)
            /\ \A i \in 1..Len(rows) :
                  /\ connector.tops[i].venue_market_id
                        = ExpectedMarketId(connector.lookup_to_native, rows[i])
                  /\ connector.tops[i].venue = "POLY"
                  /\ connector.tops[i].outcome = "YES"
                  /\ connector.tops[i].top.best_bid
                        = IF rows[i].quote.bid > 100 THEN rows[i].quote.bid \div 100
                          ELSE rows[i].quote.bid

\* three cached lookup ids fetched in batches of two: two requests, of two
\* ids and of one, and three rows carrying the native ids, the third with its
\* cents turned into 0.48
C31_Witness ==
    /\ connector.pc = "returned"
    /\ connector.market_ids = <<"lookup-1", "lookup-2", "lookup-3">>
    /\ connector.setting = 2
    /\ connector.calls = << <<"lookup-1", "lookup-2">>, <<"lookup-3">> >>
    /\ Len(connector.tops) = 3
    /\ connector.tops[1].venue_market_id = "cond-1"
    /\ connector.tops[2].venue_market_id = "cond-2"
    /\ connector.tops[3].venue_market_id = "cond-3"
    /\ connector.tops[3].top.best_bid = 48

\* the request of the first batch fails, the second batch has no rows and
\* the third still gives its row
C31_WitnessSkipped ==
    /\ connector.pc = "returned"
    /\ Len(connector.answers) = 3
    /\ connector.answers[1] = RequestFailed
    /\ connector.answers[2] = [rows |-> <<>>]
    /\ Len(connector.tops) = 1
    /\ connector.tops[1].venue_market_id = "cond-3"

\* a list with a repeated id, written once with a blank, and an empty id
C31_WitnessDeduped ==
    /\ connector.pc = "returned"
    /\ connector.market_ids = <<"lookup-1", "", " lookup-1">>
    /\ connector.deduped_ids = <<"lookup-1">>
    /\ Len(connector.calls) = 1

----------------------------------------------------------------------------
(* engine/scheduler.py: _run_discovery_cycle with the sport toggles, the     *)
(* demo fallback and the purge of the demo rows.  The flags are the          *)
(* scheduler's settings; a restart of the process may change them, the       *)
(* store outlives it                                                         *)

DemoPolyMarkets == {"poly-demo-nba-celtics-knicks", "poly-demo-ucl-gal-juv"}
DemoKalshiMarkets == {"kalshi-demo-nba-celtics-knicks", "kalshi-demo-ucl-gal-juv"}

\* venue_market_id LIKE '%demo%': of the ids listed here, the built-in ones
like_demo(market_id) == market_id \in DemoPolyMarkets \cup DemoKalshiMarkets

\* _demo_markets: two games on each venue, 4 and 8 hours from the call
demo_markets(clock) ==
    <<<<VenueMarket("POLY", "poly-demo-nba-celtics-knicks", "NBA", "NBA", clock + 48,
                    "boston celtics", "new york knicks", "WINNER_BINARY"),
        VenueMarket("POLY", "poly-demo-ucl-gal-juv", "SOCCER", "UCL", clock + 96,
                    "galatasaray", "juventus", "WINNER_BINARY")>>,
      <<VenueMarket("KALSHI", "kalshi-demo-nba-celtics-knicks", "NBA", "NBA", clock + 48,
                    "boston celtics", "new york knicks", "WINNER_BINARY"),
        VenueMarket("KALSHI", "kalshi-demo-ucl-gal-juv", "SOCCER", "UCL", clock + 96,
                    "galatasaray", "juventus", "WINNER_BINARY")>>>>

\* the raw payloads of the demo markets
DemoRaws ==
    [m \in DemoPolyMarkets \cup DemoKalshiMarkets |->
        CASE m = "poly-demo-nba-celtics-knicks" -> Priced(52, 54, 1200, 900)
          [] m = "poly-demo-ucl-gal-juv" -> Priced(44, 46, 860, 760)
          [] m = "kalshi-demo-nba-celtics-knicks" -> Priced(5700, 5900, 1400, 1100)
          [] m = "kalshi-demo-ucl-gal-juv" -> Priced(4900, 5100, 900, 1000)]

apply_sport_toggles(markets, settings) ==
    SelectSeq(markets, LAMBDA market :
        /\ ~(market.sport = "NBA" /\ ~settings.enable_nba)
        /\ ~(market.sport = "SOCCER" /\ ~settings.enable_soccer))

\* _purge_demo_data on a database that does not enforce its foreign keys (the
\* default SQLite engine): the four bulk deletes, in their order
purge_demo_data(db) ==
    LET kept == [key \in DOMAIN db.bindings |->
                    IF like_demo(key[2]) THEN NoRow ELSE db.bindings[key]]
        bound_event_ids == {kept[key].canonical_event_id :
                               key \in {k \in DOMAIN kept : kept[k] # NoRow}}
    IN  [signals |-> [key \in DOMAIN db.signals |->
                        IF /\ db.signals[key] # NoRow
                           /\ \/ like_demo(db.signals[key].buy_market_id)
                              \/ like_demo(db.signals[key].sell_market_id)
                        THEN NoRow ELSE db.signals[key]],
         orderbook |-> [key \in DOMAIN db.orderbook |->
                          IF like_demo(key[2]) THEN NoRow ELSE db.orderbook[key]],
         bindings |-> kept,
         events |-> [e \in DOMAIN db.events |->
                       IF e \in bound_event_ids THEN db.events[e] ELSE NoRow]]

\* a cycle that goes on with the lists it has
cycle_markets_going_on(poly_markets, kalshi_markets, enable_demo_fallback, clock) ==
    [skipped |-> FALSE,
     poly |-> IF (poly_markets = <<>> \/ kalshi_markets = <<>>) /\ enable_demo_fallback
              THEN demo_markets(clock)[1] ELSE poly_markets,
     kalshi |-> IF (poly_markets = <<>> \/ kalshi_markets = <<>>) /\ enable_demo_fallback
                THEN demo_markets(clock)[2] ELSE kalshi_markets]

\* the lists the cycle resolves, or that it returns before resolving
cycle_markets(poly_markets, kalshi_markets, enable_demo_fallback, clock) ==
    IF poly_markets = <<>> \/ kalshi_markets = <<>>
    THEN IF enable_demo_fallback
         THEN [skipped |-> FALSE, poly |-> demo_markets(clock)[1],
               kalshi |-> demo_markets(clock)[2]]
         ELSE [skipped |-> TRUE, poly |-> poly_markets, kalshi |-> kalshi_markets]
    ELSE [skipped |-> FALSE, poly |-> poly_markets, kalshi |-> kalshi_markets]

\* the flags of a process: everything on, the fallback off, the fallback and
\* soccer off, NBA off
SettingsChoices ==
    {[enable_demo_fallback |-> TRUE, enable_nba |-> TRUE, enable_soccer |-> TRUE],
     [enable_demo_fallback |-> FALSE, enable_nba |-> TRUE, enable_soccer |-> TRUE],
     [enable_demo_fallback |-> FALSE, enable_nba |-> TRUE, enable_soccer |-> FALSE],
     [enable_demo_fallback |-> TRUE, enable_nba |-> FALSE, enable_soccer |-> TRUE]}

\* AppScheduler(settings) as the lifespan of the application constructs it
SchedulerWith(settings) == [scheduler |-> NewScheduler, settings |-> settings]

DemoEventIds == {DemoNbaEvents[i] : i \in 1..Len(DemoNbaEvents)}
                   \cup {DemoUclEvents[i] : i \in 1..Len(DemoUclEvents)}

DemoBindingKeys == {<<"POLY", m>> : m \in DemoPolyMarkets}
                      \cup {<<"KALSHI", m>> : m \in DemoKalshiMarkets}

\* an empty store with a place for the demo rows
InitFallback ==
    /\ now = 0
    /\ events = [e \in EventIds \cup DemoEventIds |-> NoRow]
    /\ bindings = [k \in BindingKeys \cup DemoBindingKeys |-> NoRow]
    /\ orderbook = [k \in BookKeys \cup {<<b[1], b[2], o>> : b \in DemoBindingKeys, o \in Outcomes}
                      |-> NoRow]
    /\ signals = [k \in SignalKeys
                          \cup {<<e, o, v, OtherVenue(v)>> :
                                   e \in DemoEventIds, o \in Outcomes, v \in Venue}
                    |-> NoRow]
    /\ nextSignalId = 1
    /\ positions = [p \in PosIds |-> NoRow]
    /\ snapshots = <<>>
    /\ pcSignal = "sleep"
    /\ sess = CleanSession
    /\ cycles = 0
    /\ lastOp = NoOp
    /\ \E settings \in SettingsChoices : sched = SchedulerWith(settings)
    /\ router = NewRouter(100)
    /\ connector = NewConnector("direct", 3, 500)
    /\ hub = NewHub

\* the process is started again, with settings that may differ
Restart(settings) ==
    /\ sched # SchedulerWith(settings)
    /\ sched' = SchedulerWith(settings)
    /\ lastOp' = NoOp
    /\ UNCHANGED <<netVars, now, events, bindings, orderbook, signals, nextSignalId,
                   positions, snapshots, pcSignal, sess, cycles>>

\* _run_discovery_cycle on what the two venues list: the purge the first time
\* round, the toggles, the fallback or the early return, the transaction and
\* the top-of-book refresh
RunDiscoveryCycle(listed_poly, listed_kalshi, overrides, raws, tops) ==
    LET settings == sched.settings
        purging == ~settings.enable_demo_fallback /\ ~sched.scheduler.demo_rows_purged
        db0 == [signals |-> signals, orderbook |-> orderbook,
                bindings |-> bindings, events |-> events]
        db1 == IF purging THEN purge_demo_data(db0) ELSE db0
        toggled_poly == apply_sport_toggles(listed_poly, settings)
        toggled_kalshi == apply_sport_toggles(listed_kalshi, settings)
        chosen == cycle_markets(toggled_poly, toggled_kalshi,
                                settings.enable_demo_fallback, now)
        pairs == resolve_markets(chosen.poly, chosen.kalshi, overrides, now)
        done == run_statements(discovery_statements(pairs, chosen.poly \o chosen.kalshi),
                               [ok |-> TRUE, events |-> db1.events, bindings |-> db1.bindings,
                                orderbook |-> db1.orderbook, log |-> <<>>],
                               DemoRaws @@ raws)
        committed == ~chosen.skipped /\ done.ok
    IN  /\ cycles < MaxDiscoveries
        /\ cycles' = cycles + 1
        /\ events' = IF committed THEN done.events ELSE db1.events
        /\ bindings' = IF committed THEN done.bindings ELSE db1.bindings
        /\ orderbook' = IF committed THEN refresh_poly_books(done.orderbook, pairs, tops)
                        ELSE db1.orderbook
        /\ signals' = db1.signals
        /\ sched' = [sched EXCEPT !.scheduler.demo_rows_purged = @ \/ purging]
        /\ lastOp' = [op |-> "run_discovery_cycle",
                      settings |-> settings,
                      at |-> now,
                      purged |-> purging,
                      toggled |-> <<toggled_poly, toggled_kalshi>>,
                      skipped |-> chosen.skipped,
                      markets |-> <<chosen.poly, chosen.kalshi>>,
                      pairs |-> IF chosen.skipped THEN <<>> ELSE pairs,
                      before |-> db0,
                      log |-> IF chosen.skipped THEN <<>>
                              ELSE IF done.ok
                              THEN done.log \o <<SessionEnd("commit")>> \o fetch_statements(pairs)
                              ELSE done.log \o <<SessionEnd("rollback")>>]
        /\ UNCHANGED <<netVars, now, nextSignalId, positions, snapshots, pcSignal, sess>>

\* what the venues list in one cycle: a game both date, a game only venue A
\* lists, an NBA game on venue A with a soccer game on venue B, and nothing
FallbackListings ==
    {<<<<Listing("POLY", "p1", 2)>>, <<Listing("KALSHI", "k1", 2)>>>>,
     <<<<Listing("POLY", "p1", 2)>>, <<>>>>,
     <<<<Listing("POLY", "p1", 2)>>,
       <<VenueMarket("KALSHI", "k2", "SOCCER", "UCL", 3, "galatasaray", "juventus",
                     "WINNER_3WAY")>>>>,
     <<<<>>, <<>>>>}

\* the CLOB out of reach for every venue-A market, the demo ones included
FallbackTops == {[m \in PolyMarkets \cup DemoPolyMarkets |-> NoRow]}

NextFallback ==
    \/ \E listed \in FallbackListings, raws \in RawListings, tops \in FallbackTops :
          RunDiscoveryCycle(listed[1], listed[2], NoOverrides, raws, tops)
    \/ \E settings \in SettingsChoices : Restart(settings)
    \/ PaperRefresh
    \/ Tick

SpecFallback == InitFallback /\ [][NextFallback]_vars

\* either list of the last cycle was empty after the sport toggles
ShortOfMarkets ==
    /\ lastOp.op = "run_discovery_cycle"
    /\ \/ lastOp.toggled[1] = <<>>
       \/ lastOp.toggled[2] = <<>>

\* a row of the three tables the cycle writes is as it was before the cycle,
\* or was deleted
NoRowWritten ==
    /\ \A e \in DOMAIN events : events[e] \in {lastOp.before.events[e], NoRow}
    /\ \A k \in DOMAIN bindings : bindings[k] \in {lastOp.before.bindings[k], NoRow}
    /\ \A k \in DOMAIN orderbook : orderbook[k] \in {lastOp.before.orderbook[k], NoRow}

\* the cycle went on with the demo markets: it resolved them, persisted the
\* pairs, seeded the four markets and asked for the tops of the pairs
WentOnWithDemo ==
    LET demo == demo_markets(lastOp.at)
        pairs == resolve_markets(demo[1], demo[2], NoOverrides, lastOp.at)
    IN  /\ ~lastOp.skipped
        /\ lastOp.markets = demo
        /\ lastOp.pairs = pairs
        /\ Len(pairs) = 2
        /\ lastOp.log = discovery_statements(pairs, demo[1] \o demo[2])
                           \o <<SessionEnd("commit")>> \o fetch_statements(pairs)
        /\ \A i \in 1..2 :
              /\ events[pairs[i].event_id] # NoRow
              /\ bindings[<<"POLY", pairs[i].poly>>].canonical_event_id = pairs[i].event_id
              /\ bindings[<<"KALSHI", pairs[i].kalshi>>].canonical_event_id = pairs[i].event_id
        /\ \A k \in DemoBindingKeys : orderbook[<<k[1], k[2], "YES">>] # NoRow

\* C32: when either venue's list is empty after the sport toggles, a cycle
\* with the demo fallback enabled goes on with the built-in demo markets in
\* place of both lists, and a cycle with it disabled returns at once: it
\* writes no event, binding or order-book row and asks for no top of book
C32_EmptyListFallsBackOrSkips ==
    ShortOfMarkets =>
        IF lastOp.settings.enable_demo_fallback
        THEN WentOnWithDemo
        ELSE /\ lastOp.skipped
             /\ lastOp.log = <<>>
             /\ NoRowWritten

\* C32 witness: a cycle with the fallback on that found venue B empty and
\* stored the demo rows
C32_Witness ==
    /\ ShortOfMarkets
    /\ lastOp.settings.enable_demo_fallback
    /\ lastOp.toggled[1] # <<>>
    /\ bindings[<<"POLY", "poly-demo-nba-celtics-knicks">>] # NoRow

\* C32 witness: a cycle with the fallback off that was skipped because the
\* soccer toggle emptied venue B's list, with rows of earlier cycles in store
C32_WitnessSkipped ==
    /\ ShortOfMarkets
    /\ ~lastOp.settings.enable_demo_fallback
    /\ ~lastOp.settings.enable_soccer
    /\ lastOp.toggled[1] # <<>>
    /\ bindings[<<"POLY", "p1">>] # NoRow
    /\ orderbook[<<"POLY", "p1", "YES">>] # NoRow

\* C32 witness: a skipped cycle that was the first of its process and purged
\* demo rows an earlier process had stored
C32_WitnessPurged ==
    /\ ShortOfMarkets
    /\ ~lastOp.settings.enable_demo_fallback
    /\ lastOp.purged
    /\ lastOp.before.bindings[<<"POLY", "poly-demo-nba-celtics-knicks">>] # NoRow
    /\ bindings[<<"POLY", "poly-demo-nba-celtics-knicks">>] = NoRow

\* the pairs the last discovery cycle resolved
ResolvedPairs == {lastOp.pairs[i] : i \in 1..Len(lastOp.pairs)}

\* C33: after a discovery cycle the store holds, for each pair the resolver
\* gave it, the pair's event and a binding of each of the pair's two markets
\* that points to this event, and no two bindings share (venue, market id) or
\* (event, venue)
C33_CyclePersistsEveryPair ==
    lastOp.op = "discovery" =>
        /\ \A pair \in ResolvedPairs :
              /\ events[pair.event_id] # NoRow
              /\ bindings[<<"POLY", pair.poly>>] # NoRow
              /\ bindings[<<"POLY", pair.poly>>].canonical_event_id = pair.event_id
              /\ bindings[<<"KALSHI", pair.kalshi>>] # NoRow
              /\ bindings[<<"KALSHI", pair.kalshi>>].canonical_event_id = pair.event_id
        /\ \A k1 \in BindingKeys, k2 \in BindingKeys :
              (/\ bindings[k1] # NoRow
               /\ bindings[k2] # NoRow
               /\ k1[1] = k2[1]
               /\ bindings[k1].canonical_event_id = bindings[k2].canonical_event_id)
                  => k1 = k2

----------------------------------------------------------------------------
(* The broadcast loop's latest snapshot and what the hub publishes *)

\* the payload of the broadcast under way and every payload handed out are at
\* most as new as the latest snapshot
PublishedNotNewerThanLatest ==
    /\ hub.bc.pc = "sending" => hub.bc.payload.turn <= hub.last_snapshot.turn
    /\ \A payload \in hub.delivered : payload.turn <= hub.last_snapshot.turn

\* a turn of the loop that left the latest snapshot as it was
TurnWithoutKeeping ==
    /\ hub'.turns = hub.turns + 1
    /\ hub'.last_snapshot = hub.last_snapshot

\* a send of the broadcast under way raised
SendFailed ==
    /\ hub.bc.pc = "sending"
    /\ Len(hub'.bc.stale) = Len(hub.bc.stale) + 1

\* C34: the snapshot a broadcast cycle built is kept as the latest before it
\* is published, so no subscriber is sent a payload newer than the latest; a
\* cycle whose build failed keeps the latest as it was and publishes nothing;
\* a failed send leaves the latest that was kept
C34_LatestIsKeptBeforePublishing ==
    /\ []PublishedNotNewerThanLatest
    /\ [][TurnWithoutKeeping => (hub'.bc = hub.bc /\ hub'.delivered = hub.delivered)]_vars
    /\ [][SendFailed => hub'.last_snapshot = hub.last_snapshot]_vars

\* C34 witness: the second turn's build failed after the first turn's
\* snapshot was kept and sent to a subscriber, with one send that raised
C34_Witness ==
    /\ hub.turns = 2
    /\ hub.last_snapshot = Payload(BuiltKeys, 1)
    /\ hub.bc.payload = Payload(BuiltKeys, 1)
    /\ hub.bc.pc = "done"
    /\ hub.bc.stale # <<>>
    /\ Payload(BuiltKeys, 1) \in hub.delivered

----------------------------------------------------------------------------
(* The life of a paper position under close requests, the settlement of     *)
(* started events and the marking to market                                 *)

\* a store with an open position on the event that starts at time 2 and a
\* second position, open on the event that starts at time 3 or closed by an
\* earlier request
InitLifecycle ==
    /\ InitPaper
    /\ positions[1] = StoredPosition("e1", 20000, "OPEN", 0)
    /\ positions[2] \in {StoredPosition("e2", 30000, "OPEN", 0),
                         StoredPosition("e1", 10000, "CLOSED", 70000)}

NextLifecycle ==
    \/ \E raw \in PaperListings : PaperDiscovery(raw)
    \/ Tick
    \/ \E position_id \in {1, 2} : PaperClose(position_id)
    \/ PaperAutoClose
    \/ PaperMarkToMarket

SpecLifecycle == InitLifecycle /\ [][NextLifecycle]_vars

ClosedNow == {p \in PaperIds : positions[p] # NoRow /\ positions[p].status = "CLOSED"}

\* C35: a position that is CLOSED stays as it is: no close_position,
\* auto_close_started_events or mark_to_market changes its status,
\* realized_pnl, unrealized_pnl or closed_at (close_position hands it back
\* unchanged), and every CLOSED position has unrealized_pnl 0
C35_ClosedPositionsStayAsTheyAre ==
    /\ [](\A p \in ClosedNow : positions[p].unrealized_pnl = 0)
    /\ [][\A p \in ClosedNow :
              /\ positions'[p] # NoRow
              /\ positions'[p].status = "CLOSED"
              /\ positions'[p].realized_pnl = positions[p].realized_pnl
              /\ positions'[p].unrealized_pnl = positions[p].unrealized_pnl
              /\ positions'[p].closed_at = positions[p].closed_at]_vars

\* C35 witness: a close request, answered without error, for a position that
\* an earlier call closed at an earlier time, under quotes that would settle
\* it differently now
C35_Witness ==
    /\ lastOp.op = "close_position"
    /\ ~lastOp.error
    /\ lastOp.before[lastOp.position_id].status = "CLOSED"
    /\ lastOp.before[lastOp.position_id].closed_at > 0
    /\ lastOp.before[lastOp.position_id].closed_at < lastOp.at
    /\ close_position_again(lastOp.before, orderbook, lastOp.position_id) # lastOp.before

\* C35 witness: mark_to_market ran with quotes for a position that the
\* settlement of started events had closed
C35_WitnessMarked ==
    /\ lastOp.op = "mark_to_market"
    /\ \E p \in PaperIds :
          /\ lastOp.before[p] # NoRow
          /\ lastOp.before[p].status = "CLOSED"
          /\ lastOp.before[p].closed_at > 0
          /\ mark_all_positions(lastOp.before, orderbook)[p] # lastOp.before[p]

----------------------------------------------------------------------------
(* The operator's decisions on bindings between discovery cycles.  decided  *)
(* remembers, per binding, the status the operator's last request gave it   *)

InitMappings ==
    /\ InitStore
    /\ router = NewRouter(100)
    /\ connector = [pc |-> "operator", decided |-> [key \in {} |-> ""]]
    /\ hub = NewHub

\* POST /mappings/{id}/approve and POST /mappings/{id}/reject on a stored
\* binding, with their commit
OperatorDecides(key, request) ==
    /\ bindings[key] # NoRow
    /\ bindings' = IF request = "approve" THEN approve_mapping(bindings, key)
                   ELSE reject_mapping(bindings, key)
    /\ connector' = [connector EXCEPT !.decided =
                        (key :> (IF request = "approve" THEN "OVERRIDE" ELSE "REJECTED")) @@ @]
    /\ lastOp' = NoOp
    /\ UNCHANGED <<router, hub, now, events, orderbook, signals, nextSignalId, positions,
                   snapshots, pcSignal, sess, cycles, sched>>

\* the cycles' listings: the first game dated by both venues, or by neither
MappingListings ==
    {<<<<Listing("POLY", "p1", 2)>>, <<Listing("KALSHI", "k1", 2)>>>>,
     <<<<Listing("POLY", "p1", NoPrice)>>, <<Listing("KALSHI", "k1", NoPrice)>>>>}

NextMappings ==
    \/ \E listed \in MappingListings, overrides \in OverrideFiles :
          \E raws \in RawListings, tops \in ClobDown :
             DiscoveryRun(listed[1], listed[2], overrides, raws, tops)
    \/ \E key \in {<<"POLY", "p1">>, <<"KALSHI", "k1">>}, request \in {"approve", "reject"} :
          OperatorDecides(key, request)

SpecMappings == InitMappings /\ [][NextMappings]_vars

\* C36: a binding the operator approved or rejected keeps the status the
\* decision gave it (OVERRIDE or REJECTED) through the discovery cycles that
\* follow
C36_OperatorDecisionPersists ==
    \A key \in DOMAIN connector.decided :
        /\ bindings[key] # NoRow
        /\ bindings[key].status = connector.decided[key]

----------------------------------------------------------------------------
(* The signals of one tradable pair over signal cycles, while the quotes of *)
(* venue A move from below those of venue B to above them and the clock     *)
(* runs up to the start of the event                                        *)

InitSignals ==
    /\ now = 0
    /\ events = [e \in EventIds |->
                    IF e \in {"e1", "e2"} THEN [start_time_utc |-> StartOf(e)] ELSE NoRow]
    /\ bindings = upsert_binding(upsert_binding([k \in BindingKeys |-> NoRow],
                                                ResolvedPair("p1", "k1", "AUTO"), "POLY"),
                                 ResolvedPair("p1", "k1", "AUTO"), "KALSHI")
    /\ orderbook = [k \in BookKeys |-> NoRow]
    /\ signals = [k \in SignalKeys |-> NoRow]
    /\ nextSignalId = 1
    /\ positions = [p \in PosIds |-> NoRow]
    /\ snapshots = <<>>
    /\ pcSignal = "sleep"
    /\ sess = CleanSession
    /\ cycles = 0
    /\ lastOp = NoOp
    /\ sched = NewScheduler
    /\ router = NewRouter(100)
    /\ connector = NewConnector("polyrouter", 3, 500)
    /\ hub = NewHub

\* what the two venues list: venue A below venue B, above it, and level with it
FlipListings ==
    {<<Priced(40, 41, 300, 250), Priced(4900, 5000, 300, 250)>>,
     <<Priced(57, 58, 300, 250), Priced(4900, 5000, 300, 250)>>,
     <<Priced(48, 49, 300, 250), Priced(4900, 5000, 300, 250)>>}

\* refresh_signals(session, settings) and its commit
RefreshSignals ==
    LET done == refresh_signals(signals, nextSignalId, events, bindings, orderbook)
    IN  /\ signals' = done.signals
        /\ nextSignalId' = done.next_id
        /\ lastOp' = [op |-> "refresh_signals", at |-> now, before |-> signals,
                      created |-> done.created]
        /\ UNCHANGED <<netVars, now, events, bindings, orderbook, positions, snapshots,
                       pcSignal, sess, cycles, sched>>

NextSignals ==
    \/ \E listed \in FlipListings : SimDiscovery(listed)
    \/ RefreshSignals
    \/ Tick

SpecSignals == InitSignals /\ [][NextSignals]_vars

OpenSignals == {key \in DOMAIN signals : signals[key] # NoRow /\ signals[key].status = "OPEN"}

\* C37: of the two directions of an event and outcome at most one has an OPEN
\* signal, and after a signal cycle it is the direction whose
\* edge_after_costs is the larger in that cycle, venue A buying on a tie
C37_OneOpenSignalInTheBetterDirection ==
    \A e \in EventIds, o \in Outcomes :
        LET open == {key \in OpenSignals : key[1] = e /\ key[2] = o}
        IN  /\ Cardinality(open) <= 1
            /\ (/\ lastOp.op = "refresh_signals"
                /\ e \in load_binding_pairs(events, bindings)
                /\ evaluate_pair(orderbook, bindings, e, o) # NoSignal)
                  => open \subseteq {SignalKeyOf(evaluate_pair(orderbook, bindings, e, o))}

\* C38: after a signal cycle every OPEN signal meets the conditions under
\* which signals are emitted, on the store of that cycle: its event starts at
\* now + min_seconds_to_start or later, and the edge_after_costs of its
\* direction on the current tops is at least min_edge
C38_OpenSignalsMeetEmissionConditions ==
    lastOp.op = "refresh_signals" =>
        \A key \in OpenSignals :
            LET buy_quote == get_quote(orderbook, key[3], signals[key].buy_market_id, key[2])
                sell_quote == get_quote(orderbook, key[4], signals[key].sell_market_id, key[2])
            IN  /\ events[key[1]] # NoRow
                /\ events[key[1]].start_time_utc >= lastOp.at + min_seconds_to_start
                /\ buy_quote # NoQuote
                /\ sell_quote # NoQuote
                /\ compute_edge(buy_quote, sell_quote, key[3], key[4]).edge_after_costs
                      >= min_edge

----------------------------------------------------------------------------
(* engine/signaler.py: _get_quote, and paper/simulator.py: simulate_signal *)

\* the order book is as it was when the signals were written: a refresh of
\* the signals on it would leave every signal row as it is
BookAsWhenWritten ==
    refresh_signals(signals, nextSignalId, events, bindings, orderbook).signals = signals

\* C39: a signal written by refresh_signals can be paper-simulated while the
\* order book it was computed from is unchanged: simulate_signal finds both
\* order-book rows and does not fail with "orderbook unavailable for
\* simulation", for outcome YES and for outcome NO, a NO signal priced from
\* the quote derived from the YES book included
C39_WrittenSignalsCanBeSimulated ==
    (/\ lastOp.op = "simulate_signal"
     /\ ~SignalMissing(lastOp.inputs)
     /\ ~SizeNotPositive(lastOp.inputs)
     /\ BookAsWhenWritten)
        => /\ ~BookMissing(lastOp.inputs)
           /\ lastOp.result # [error |-> "orderbook unavailable for simulation"]

\* the same for the signals of outcome YES alone
YesSignalsCanBeSimulated ==
    (/\ lastOp.op = "simulate_signal"
     /\ ~SignalMissing(lastOp.inputs)
     /\ ~SizeNotPositive(lastOp.inputs)
     /\ SignalById(signals, lastOp.inputs.signal_id).key[2] = "YES"
     /\ BookAsWhenWritten)
        => /\ ~BookMissing(lastOp.inputs)
           /\ lastOp.result # [error |-> "orderbook unavailable for simulation"]

----------------------------------------------------------------------------
(* engine/scheduler.py: _purge_demo_data, and the rows that refer to what   *)
(* it deletes (models.py: the foreign keys of mispricing_signals and        *)
(* paper_positions; db.py: SQLite without PRAGMA foreign_keys, which does   *)
(* not enforce them)                                                        *)

\* POST /paper/simulate with no size, and the commit of its session: the
\* position takes the first free id
PostPaperSimulate(signal_id) ==
    LET result == simulate_signal_seeded(signals, orderbook, signal_id, NoSize)
        free == {p \in DOMAIN positions : positions[p] = NoRow}
    IN  /\ free # {}
        /\ positions' = IF "error" \in DOMAIN result THEN positions
                        ELSE [positions EXCEPT ![CHOOSE p \in free :
                                                   \A q \in free : p <= q] = result]
        /\ lastOp' = [op |-> "simulate_signal",
                      requested_size |-> NoSize,
                      inputs |-> RunInputs(signal_id, NoSize),
                      result |-> result,
                      before |-> positions,
                      prev |-> PreviousRun]
        /\ UNCHANGED <<netVars, now, events, bindings, orderbook, signals, nextSignalId,
                       snapshots, pcSignal, sess, cycles, sched>>

\* what the venues list in one cycle: a game both list, and nothing
PurgeListings ==
    {<<<<Listing("POLY", "p1", 2)>>, <<Listing("KALSHI", "k1", 2)>>>>,
     <<<<>>, <<>>>>}

\* the signals a request can name: those of the demo markets and of the
\* listed game
PurgeSignalIds == 1..4

\* the discovery cycles of a process and of the processes started after it,
\* the signal cycles, the simulate requests and the auto-close between them
NextPurge ==
    \/ \E listed \in PurgeListings, raws \in RawListings, tops \in FallbackTops :
          RunDiscoveryCycle(listed[1], listed[2], NoOverrides, raws, tops)
    \/ \E settings \in SettingsChoices : Restart(settings)
    \/ PaperRefresh
    \/ \E signal_id \in PurgeSignalIds : PostPaperSimulate(signal_id)
    \/ PaperAutoClose

SpecPurge == InitFallback /\ [][NextPurge]_vars

\* every signal refers to a canonical event that exists
SignalsReferToEvents ==
    \A key \in DOMAIN signals : signals[key] # NoRow => events[key[1]] # NoRow

\* every paper position refers to a canonical event and to a signal that exist
PositionsReferToRows ==
    \A p \in DOMAIN positions :
        positions[p] # NoRow =>
            /\ events[positions[p].canonical_event_id] # NoRow
            /\ SignalById(signals, positions[p].signal_id) # NoRow

\* the purge runs only in a process whose demo fallback is disabled, and in
\* the first discovery cycle of the process only
PurgeOnceWhenDisabled ==
    /\ (lastOp.op = "run_discovery_cycle" /\ lastOp.purged)
          => ~lastOp.settings.enable_demo_fallback
    /\ sched.settings.enable_demo_fallback => ~sched.scheduler.demo_rows_purged

\* C40: referential integrity holds in every reachable state, the startup
\* demo purge included: every signal and every paper position refers to an
\* existing canonical event and every paper position to an existing signal;
\* the purge, run at most once and only when the demo fallback is disabled,
\* deletes no row that a remaining signal or position refers to
C40_ReferentialIntegrityHolds ==
    /\ SignalsReferToEvents
    /\ PositionsReferToRows
    /\ PurgeOnceWhenDisabled

============================================================================
